---- MODULE Spec2Model ----
(***************************************************************************)
(* Model of the OAuth token lifecycle of whoop-mcp:                        *)
(*   pkg/auth/token.go   Token, TokenManager (Load, Save, Delete, Refresh, *)
(*                       EnsureValidToken)                                 *)
(*   pkg/whoop/client.go Client (getToken, doRequest), APIError            *)
(*   pkg/auth/oauth.go   StartAuthFlow and the callback listener           *)
(* Time is counted in seconds.  A Go error is a record: msg is the chain   *)
(* of fmt.Errorf contexts, outermost first (<<>> is the nil error), and    *)
(* status is the HTTP status code that the message carries (0 for none).   *)
(***************************************************************************)
EXTENDS Integers, Sequences, FiniteSets, TLC

VARIABLES
    file,      \* the token file ~/.whoop/token.json
    now,       \* the wall clock, time.Now()
    client,    \* the whoop.Client built by main
    last,      \* what the most recent TokenManager / Client call did
    perm,      \* the permission bits of ~/.whoop and of the token file
    writer,    \* the Save whose WriteFile is under way, step by step
    callers,   \* the goroutines that run EnsureValidToken at the same time
    pc,        \* where StartAuthFlow (the orchestrator) stands
    config,    \* the OAuthConfig StartAuthFlow was called with
    state,     \* the nonce of generateState
    nonces,    \* the nonces of the attempts made so far, this one included
    port,      \* who holds the callback port 8080
    srv,       \* the http.Server of startCallbackServer and its Serve goroutine
    codeChan,  \* chan string, capacity 1
    errChan,   \* chan error, capacity 1
    handlers,  \* the callback requests and their handler goroutines
    timer,     \* whether time.After(authTimeout) has fired
    ctxDone,   \* whether the caller's context is cancelled
    flow       \* what the orchestrator did and what StartAuthFlow returns

tokenVars == <<file, now, client, last, perm, writer, callers>>

authVars ==
    <<pc, config, state, nonces, port, srv, codeChan, errChan, handlers, timer,
      ctxDone, flow>>

-----------------------------------------------------------------------------
(* Bounds of the model *)

StartTime == 1000      \* the clock at Init; every real time is > ZeroTime
MaxElapsed == 2        \* the clock runs from StartTime to StartTime + MaxElapsed

(* Program constants *)

MarginSeconds == 300   \* 5 * time.Minute, the safety margin of IsExpired
StatusOK == 200        \* http.StatusOK

ZeroTime == 0          \* time.Time{}, for which IsZero() holds

dirPerm == 448         \* 0700
filePerm == 384        \* 0600

-----------------------------------------------------------------------------
(* Errors *)

NoErr == [msg |-> <<>>, status |-> 0]

Errorf(text) == [msg |-> <<text>>, status |-> 0]

\* The error of a failed status without the status code.
ErrorfStatus_NoCode(text, code) == [msg |-> <<text>>, status |-> 0]

\* fmt.Errorf("text %d", code)
ErrorfStatus(text, code) == [msg |-> <<text>>, status |-> code]

\* fmt.Errorf("ctx: %w", err)
Wrap(text, err) == [err EXCEPT !.msg = <<text>> \o @]

IsNil(err) == err.msg = <<>>

-----------------------------------------------------------------------------
(* Token and the token file *)

ZeroToken ==
    [AccessToken |-> "", RefreshToken |-> "", TokenType |-> "", Expiry |-> ZeroTime]

\* The JSON object of the token file, keyed by the struct tags of Token.
EmptyObject ==
    [access_token |-> "", refresh_token |-> "", token_type |-> "", expiry |-> ZeroTime]

\* kind: "absent" (no file), "unreadable" (ReadFile fails other than with
\* not-exist), "garbage" (content that is not JSON, the empty file included),
\* "json" (content obj).
NoFile == [kind |-> "absent", obj |-> EmptyObject]

UnreadableFile == [kind |-> "unreadable", obj |-> EmptyObject]

GarbageFile == [kind |-> "garbage", obj |-> EmptyObject]

JsonFile(obj) == [kind |-> "json", obj |-> obj]

\* json.MarshalIndent(token, "", "  ")
MarshalIndent(token) ==
    [access_token  |-> token.AccessToken,
     refresh_token |-> token.RefreshToken,
     token_type    |-> token.TokenType,
     expiry        |-> token.Expiry]

\* Unmarshal that does not read the expiry.
Unmarshal_NoExpiry(obj) ==
    [AccessToken  |-> obj.access_token,
     RefreshToken |-> obj.refresh_token,
     TokenType    |-> obj.token_type,
     Expiry       |-> ZeroTime]

\* json.Unmarshal(data, &token)
Unmarshal(obj) ==
    [AccessToken  |-> obj.access_token,
     RefreshToken |-> obj.refresh_token,
     TokenType    |-> obj.token_type,
     Expiry       |-> obj.expiry]

\* IsExpired with the margin compared by >= instead of After.
IsExpired_AtMargin(token, t) ==
    IF token.Expiry = ZeroTime
    THEN FALSE
    ELSE t + MarginSeconds >= token.Expiry

\* IsExpired without the IsZero case: a token that never expires counts as
\* expired.
IsExpired_NoZeroCase(token, t) == t + MarginSeconds > token.Expiry

\* Token.IsExpired at clock t
IsExpired(token, t) ==
    IF token.Expiry = ZeroTime
    THEN FALSE
    ELSE t + MarginSeconds > token.Expiry

\* ExpiresIn without the IsZero case: the distance to the zero time.
ExpiresIn_NoZeroCase(token, t) == token.Expiry - t

\* Token.ExpiresIn at clock t
ExpiresIn(token, t) ==
    IF token.Expiry = ZeroTime
    THEN 0
    ELSE token.Expiry - t

\* Load without the os.IsNotExist case: a missing file is a read error.
Load_NoNotExist(f) ==
    IF f.kind \in {"absent", "unreadable"}
    THEN [found |-> FALSE, token |-> ZeroToken, err |-> Errorf("reading token file")]
    ELSE IF f.kind = "garbage"
    THEN [found |-> FALSE, token |-> ZeroToken, err |-> Errorf("parsing token file")]
    ELSE [found |-> TRUE, token |-> Unmarshal(f.obj), err |-> NoErr]

\* Load that takes a file it cannot read or parse for a missing one.
Load_UnusableAsAbsent(f) ==
    IF f.kind \in {"absent", "unreadable", "garbage"}
    THEN [found |-> FALSE, token |-> ZeroToken, err |-> NoErr]
    ELSE [found |-> TRUE, token |-> Unmarshal(f.obj), err |-> NoErr]

\* TokenManager.Load: found = FALSE is the nil *Token.
Load(f) ==
    IF f.kind = "absent"
    THEN [found |-> FALSE, token |-> ZeroToken, err |-> NoErr]
    ELSE IF f.kind = "unreadable"
    THEN [found |-> FALSE, token |-> ZeroToken, err |-> Errorf("reading token file")]
    ELSE IF f.kind = "garbage"
    THEN [found |-> FALSE, token |-> ZeroToken, err |-> Errorf("parsing token file")]
    ELSE [found |-> TRUE, token |-> Unmarshal(f.obj), err |-> NoErr]

\* What the file system does to one Save:
\*   "ok"     MkdirAll and WriteFile succeed
\*   "mkdir"  MkdirAll fails
\*   "open"   WriteFile fails to open the file
\*   "write"  WriteFile opened the file with O_TRUNC and then failed to write
FsOutcomes == {"ok", "mkdir", "open", "write"}

\* TokenManager.Save
Save(f, token, fs) ==
    IF fs = "mkdir"
    THEN [file |-> f, err |-> Errorf("creating token directory")]
    ELSE IF fs = "open"
    THEN [file |-> f, err |-> Errorf("writing token file")]
    ELSE IF fs = "write"
    THEN [file |-> GarbageFile, err |-> Errorf("writing token file")]
    ELSE [file |-> JsonFile(MarshalIndent(token)), err |-> NoErr]

\* Delete that reports a missing file as an error.
Delete_StrictMissing(f, rmOk) ==
    IF f.kind = "absent" \/ ~rmOk
    THEN [file |-> f, err |-> Errorf("deleting token file")]
    ELSE [file |-> NoFile, err |-> NoErr]

\* TokenManager.Delete: rmOk = FALSE is os.Remove failing other than with
\* not-exist.
Delete(f, rmOk) ==
    IF f.kind = "absent"
    THEN [file |-> f, err |-> NoErr]
    ELSE IF rmOk
    THEN [file |-> NoFile, err |-> NoErr]
    ELSE [file |-> f, err |-> Errorf("deleting token file")]

\* Permission bits: NoMode for a path that does not exist; 0755 and 0644 are
\* what a directory and a file made by other means commonly have.
NoMode == 0

DirModes == {dirPerm, 493}

FileModes == {filePerm, 420}

\* The permissions after Save: os.MkdirAll(dir, dirPerm) creates the directory
\* with dirPerm and leaves an existing directory as it is; os.WriteFile(path,
\* data, filePerm) opens with O_CREATE|O_TRUNC, so filePerm is given to a file
\* it creates and an existing file keeps its bits.  (The umask is taken not to
\* clear owner bits.)
SaveModes(p, fs) ==
    IF fs = "mkdir"
    THEN p
    ELSE LET d == IF p.dir = NoMode THEN dirPerm ELSE p.dir
         IN  IF fs = "open"
             THEN [p EXCEPT !.dir = d]
             ELSE [dir |-> d, file |-> IF p.file = NoMode THEN filePerm ELSE p.file]

\* The permissions after Delete left the token file as f.
DeleteModes(p, f) == IF f.kind = "absent" THEN [p EXCEPT !.file = NoMode] ELSE p

\* No Save is writing.
NoWriter == [st |-> "none", token |-> ZeroToken, old |-> NoFile]

\* The goroutines that call EnsureValidToken at the same time (the tool calls
\* of one server over one TokenManager).
Callers == {1, 2}

\* A caller that has not begun.  held is the token it loaded, new the token
\* its Refresh built, ret and err what EnsureValidToken returns to it.
NoCaller ==
    [pc |-> "start", held |-> ZeroToken, new |-> ZeroToken, ret |-> "", err |-> NoErr]

\* net: the requests the token endpoint has received, each with its caller;
\* io: the opens and the writes of the Saves on the token file, in order.
NoCallers ==
    [p |-> [i \in Callers |-> NoCaller], net |-> <<>>, io |-> <<>>]

-----------------------------------------------------------------------------
(* The token endpoint *)

EmptyBody ==
    [access_token |-> "", refresh_token |-> "", token_type |-> "", expires_in |-> 0]

\* One answer of the token endpoint to one POST:
\*   neterr    httpClient.Do returned an error (no response)
\*   status    the HTTP status code
\*   decodes   the body decodes as a JSON tokenResponse
\*   body      the decoded tokenResponse
\*   delay     seconds from sending the request to processing the response
ResponseBodies ==
    [access_token : {"at1", "at2"},
     refresh_token : {"", "rt1"},
     token_type : {"Bearer"},
     expires_in : {0, MarginSeconds, MarginSeconds + 1}]

NoResponse ==
    [neterr |-> TRUE, status |-> 0, decodes |-> FALSE, body |-> EmptyBody, delay |-> 0]

TokenResponses ==
    {NoResponse}
    \cup [neterr : {FALSE}, status : {201, 401}, decodes : {FALSE},
          body : {EmptyBody}, delay : {0}]
    \cup [neterr : {FALSE}, status : {StatusOK}, decodes : {FALSE},
          body : {EmptyBody}, delay : {0}]
    \cup [neterr : {FALSE}, status : {StatusOK}, decodes : {TRUE},
          body : ResponseBodies, delay : {0, 1}]

\* The form of the refresh POST (token.go:127-131); the client credentials
\* are fixed per TokenManager and left out.
RefreshRequest(refreshToken) ==
    [grant_type |-> "refresh_token", value |-> refreshToken]

\* NewToken with the expiry taken as the processing time alone.
NewToken_NoExpiresIn(body, t) ==
    [AccessToken  |-> body.access_token,
     RefreshToken |-> body.refresh_token,
     TokenType    |-> body.token_type,
     Expiry       |-> t]

\* NewToken that takes expires_in for minutes.
NewToken_Minutes(body, t) ==
    [AccessToken  |-> body.access_token,
     RefreshToken |-> body.refresh_token,
     TokenType    |-> body.token_type,
     Expiry       |-> t + 60 * body.expires_in]

\* The Token that Refresh and exchangeCode build from a tokenResponse that is
\* processed at clock t.
NewToken(body, t) ==
    [AccessToken  |-> body.access_token,
     RefreshToken |-> body.refresh_token,
     TokenType    |-> body.token_type,
     Expiry       |-> t + body.expires_in]

\* Refresh that keeps the refresh token it was called with when the response
\* carries none.
Refresh_KeepRefreshToken(f, t, refreshToken, resp, fs) ==
    LET req == RefreshRequest(refreshToken)
        failed(e) == [found |-> FALSE, token |-> ZeroToken, err |-> e,
                      file |-> f, net |-> <<req>>, saves |-> 0, t |-> t + resp.delay]
    IN  IF resp.neterr
        THEN failed(Errorf("executing refresh request"))
        ELSE IF resp.status # StatusOK
        THEN failed(ErrorfStatus("refresh failed with status", resp.status))
        ELSE IF ~resp.decodes
        THEN failed(Errorf("parsing refresh response"))
        ELSE LET token == [NewToken(resp.body, t + resp.delay) EXCEPT
                              !.RefreshToken = IF resp.body.refresh_token = ""
                                               THEN refreshToken
                                               ELSE resp.body.refresh_token]
                 sv == Save(f, token, fs)
             IN  IF ~IsNil(sv.err)
                 THEN [found |-> FALSE, token |-> ZeroToken,
                       err |-> Wrap("saving refreshed token", sv.err),
                       file |-> sv.file, net |-> <<req>>, saves |-> 1,
                       t |-> t + resp.delay]
                 ELSE [found |-> TRUE, token |-> token, err |-> NoErr,
                       file |-> sv.file, net |-> <<req>>, saves |-> 1,
                       t |-> t + resp.delay]

\* Refresh that returns the new token without saving it.
Refresh_DryRun(f, t, refreshToken, resp, fs) ==
    LET req == RefreshRequest(refreshToken)
        failed(e) == [found |-> FALSE, token |-> ZeroToken, err |-> e,
                      file |-> f, net |-> <<req>>, saves |-> 0, t |-> t + resp.delay]
    IN  IF resp.neterr
        THEN failed(Errorf("executing refresh request"))
        ELSE IF resp.status # StatusOK
        THEN failed(ErrorfStatus("refresh failed with status", resp.status))
        ELSE IF ~resp.decodes
        THEN failed(Errorf("parsing refresh response"))
        ELSE [found |-> TRUE, token |-> NewToken(resp.body, t + resp.delay),
              err |-> NoErr, file |-> f, net |-> <<req>>, saves |-> 0,
              t |-> t + resp.delay]

\* TokenManager.Refresh at clock t.  net is the sequence of requests sent to
\* the token endpoint, saves the number of Save calls, t the clock at return.
Refresh(f, t, refreshToken, resp, fs) ==
    LET req == RefreshRequest(refreshToken)
        failed(e) == [found |-> FALSE, token |-> ZeroToken, err |-> e,
                      file |-> f, net |-> <<req>>, saves |-> 0, t |-> t + resp.delay]
    IN  IF resp.neterr
        THEN failed(Errorf("executing refresh request"))
        ELSE IF resp.status # StatusOK
        THEN failed(ErrorfStatus("refresh failed with status", resp.status))
        ELSE IF ~resp.decodes
        THEN failed(Errorf("parsing refresh response"))
        ELSE LET token == NewToken(resp.body, t + resp.delay)
                 sv == Save(f, token, fs)
             IN  IF ~IsNil(sv.err)
                 THEN [found |-> FALSE, token |-> ZeroToken,
                       err |-> Wrap("saving refreshed token", sv.err),
                       file |-> sv.file, net |-> <<req>>, saves |-> 1,
                       t |-> t + resp.delay]
                 ELSE [found |-> TRUE, token |-> token, err |-> NoErr,
                       file |-> sv.file, net |-> <<req>>, saves |-> 1,
                       t |-> t + resp.delay]

\* EnsureValidToken that hands out the stale access token when the token is
\* expired and cannot be refreshed.
EnsureValidToken_Stale(f, t, resp, fs) ==
    LET ld == Load(f)
        done(ret, e) == [ret |-> ret, err |-> e, file |-> f, net |-> <<>>,
                         loads |-> 1, saves |-> 0, t |-> t]
    IN  IF ~IsNil(ld.err)
        THEN done("", ld.err)
        ELSE IF ~ld.found
        THEN done("", NoErr)
        ELSE IF IsExpired(ld.token, t) /\ ld.token.RefreshToken # ""
        THEN LET rf == Refresh(f, t, ld.token.RefreshToken, resp, fs)
             IN  IF ~IsNil(rf.err)
                 THEN [ret |-> "", err |-> Wrap("refreshing token", rf.err),
                       file |-> rf.file, net |-> rf.net, loads |-> 1,
                       saves |-> rf.saves, t |-> rf.t]
                 ELSE [ret |-> rf.token.AccessToken, err |-> NoErr,
                       file |-> rf.file, net |-> rf.net, loads |-> 1,
                       saves |-> rf.saves, t |-> rf.t]
        ELSE done(ld.token.AccessToken, NoErr)

\* TokenManager.EnsureValidToken at clock t.  ret and err are the two return
\* values; loads counts the Load calls.
EnsureValidToken(f, t, resp, fs) ==
    LET ld == Load(f)
        done(ret, e) == [ret |-> ret, err |-> e, file |-> f, net |-> <<>>,
                         loads |-> 1, saves |-> 0, t |-> t]
    IN  IF ~IsNil(ld.err)
        THEN done("", ld.err)
        ELSE IF ~ld.found
        THEN done("", NoErr)
        ELSE IF IsExpired(ld.token, t)
        THEN IF ld.token.RefreshToken = ""
             THEN done("", Errorf("token expired and no refresh token available"))
             ELSE LET rf == Refresh(f, t, ld.token.RefreshToken, resp, fs)
                  IN  IF ~IsNil(rf.err)
                      THEN [ret |-> "", err |-> Wrap("refreshing token", rf.err),
                            file |-> rf.file, net |-> rf.net, loads |-> 1,
                            saves |-> rf.saves, t |-> rf.t]
                      ELSE [ret |-> rf.token.AccessToken, err |-> NoErr,
                            file |-> rf.file, net |-> rf.net, loads |-> 1,
                            saves |-> rf.saves, t |-> rf.t]
        ELSE done(ld.token.AccessToken, NoErr)

-----------------------------------------------------------------------------
(* The API client *)

\* whoop.NewClientWithToken: no token provider.
NewClientWithToken(token) == [token |-> token, hasProvider |-> FALSE]

\* whoop.NewClientWithTokenProvider: provider is FALSE for a nil provider and
\* TRUE for the TokenManager.
NewClientWithTokenProvider(envToken, provider) ==
    [token |-> envToken, hasProvider |-> provider]

\* getToken that goes on without a token when the provider fails.
FromProvider_ErrorAsNoToken(ev) ==
    LET got == [token |-> "", err |-> NoErr, file |-> ev.file,
                net |-> ev.net, loads |-> ev.loads, saves |-> ev.saves,
                t |-> ev.t, calls |-> 1]
    IN  IF IsNil(ev.err) /\ ev.ret # ""
        THEN [got EXCEPT !.token = ev.ret]
        ELSE got

\* getToken, after the provider's EnsureValidToken returned ev.
FromProvider(ev) ==
    LET got == [token |-> "", err |-> NoErr, file |-> ev.file,
                net |-> ev.net, loads |-> ev.loads, saves |-> ev.saves,
                t |-> ev.t, calls |-> 1]
    IN  IF ~IsNil(ev.err)
        THEN [got EXCEPT !.err = ev.err]
        ELSE IF ev.ret # ""
        THEN [got EXCEPT !.token = ev.ret]
        ELSE got

\* getToken that asks the provider first and falls back to the static token.
getToken_ProviderFirst(c, f, t, resp, fs) ==
    LET none == [token |-> c.token, err |-> NoErr, file |-> f, net |-> <<>>,
                 loads |-> 0, saves |-> 0, t |-> t, calls |-> 0]
        p == CHOOSE got \in {FromProvider(ev) :
                                ev \in {EnsureValidToken(f, t, resp, fs)}} : TRUE
    IN  IF c.hasProvider
        THEN IF IsNil(p.err) /\ p.token = ""
             THEN [p EXCEPT !.token = c.token]
             ELSE p
        ELSE none

\* Client.getToken.  calls counts the invocations of the provider's
\* EnsureValidToken.
getToken(c, f, t, resp, fs) ==
    LET none == [token |-> "", err |-> NoErr, file |-> f, net |-> <<>>,
                 loads |-> 0, saves |-> 0, t |-> t, calls |-> 0]
    IN  IF c.token # ""
        THEN [none EXCEPT !.token = c.token]
        ELSE IF c.hasProvider
        THEN CHOOSE got \in {FromProvider(ev) :
                                ev \in {EnsureValidToken(f, t, resp, fs)}} : TRUE
        ELSE none

\* The Authorization header of a request: absent, or "Bearer " + token.
NoHeader == [present |-> FALSE, scheme |-> "", credentials |-> ""]

Bearer(token) == [present |-> TRUE, scheme |-> "Bearer", credentials |-> token]

\* One answer of the resource API to one request: neterr is httpClient.Do
\* failing, readerr is io.ReadAll failing.
ApiStatuses == {199, 200, 299, 300, 401, 404, 429}

NoApiResponse == [neterr |-> TRUE, readerr |-> FALSE, status |-> 0, body |-> ""]

ApiResponses ==
    {NoApiResponse,
     [neterr |-> FALSE, readerr |-> TRUE, status |-> 200, body |-> ""]}
    \cup [neterr : {FALSE}, readerr : {FALSE}, status : ApiStatuses, body : {"payload"}]
    \cup {[neterr |-> FALSE, readerr |-> FALSE, status |-> 200, body |-> "not json"]}

\* The *APIError of doRequest.
APIError(code, message) == [msg |-> <<"API error", message>>, status |-> code]

\* APIError.IsUnauthorized
IsUnauthorized(e) == e.status = 401

\* IsNotFound that holds for every client error.
IsNotFound_AnyClientError(e) == e.status >= 400 /\ e.status < 500

\* APIError.IsNotFound
IsNotFound(e) == e.status = 404

\* APIError.IsRateLimited
IsRateLimited(e) == e.status = 429

\* doRequest that sets the Authorization header whatever the token is.
SendRequest_AlwaysHeader(tk, api) ==
    LET sent == [body |-> "", err |-> NoErr, file |-> tk.file, net |-> tk.net,
                 loads |-> tk.loads, saves |-> tk.saves, t |-> tk.t,
                 calls |-> tk.calls, token |-> tk.token, gets |-> 1,
                 http |-> <<[authorization |-> Bearer(tk.token)]>>]
    IN  IF ~IsNil(tk.err)
        THEN [sent EXCEPT !.err = Wrap("getting token", tk.err), !.http = <<>>]
        ELSE IF api.neterr
        THEN [sent EXCEPT !.err = Errorf("executing request")]
        ELSE IF api.readerr
        THEN [sent EXCEPT !.err = Errorf("reading response")]
        ELSE IF api.status < 200 \/ api.status >= 300
        THEN [sent EXCEPT !.err = APIError(api.status, api.body)]
        ELSE [sent EXCEPT !.body = api.body]

\* Client.doRequest, after getToken returned tk.
SendRequest(tk, api) ==
    LET auth == IF tk.token # "" THEN Bearer(tk.token) ELSE NoHeader
        sent == [body |-> "", err |-> NoErr, file |-> tk.file, net |-> tk.net,
                 loads |-> tk.loads, saves |-> tk.saves, t |-> tk.t,
                 calls |-> tk.calls, token |-> tk.token, gets |-> 1,
                 http |-> <<[authorization |-> auth]>>]
    IN  IF ~IsNil(tk.err)
        THEN [sent EXCEPT !.err = Wrap("getting token", tk.err), !.http = <<>>]
        ELSE IF api.neterr
        THEN [sent EXCEPT !.err = Errorf("executing request")]
        ELSE IF api.readerr
        THEN [sent EXCEPT !.err = Errorf("reading response")]
        ELSE IF api.status < 200 \/ api.status >= 300
        THEN [sent EXCEPT !.err = APIError(api.status, api.body)]
        ELSE [sent EXCEPT !.body = api.body]

\* Client.doRequest.  http is the sequence of requests sent to the resource
\* API, each with its Authorization header.
doRequest(c, f, t, resp, fs, api) ==
    CHOOSE r \in {SendRequest(tk, api) : tk \in {getToken(c, f, t, resp, fs)}} : TRUE

-----------------------------------------------------------------------------
(* The record of the most recent call *)

\* op       the operation called
\* pre, t0  the token file and the clock when it was called
\* post     the token file when it returned
\* ret      the string it returned (access token, response body)
\* found    whether it returned a non-nil *Token, and token that Token
\* err      the error it returned
\* net      the requests it sent to the token endpoint
\* resp     the token endpoint's answer, when a request was sent
\* http     the requests it sent to the resource API
\* loads, saves, calls   Load calls, Save calls, provider invocations
\* expired, expiresIn    the answers of IsExpired and ExpiresIn
\* args, out             the arguments and the result of a function without state
\* api      the resource API's answer, when a request was sent
\* gets     the getToken calls
NoCall ==
    [op |-> "none", pre |-> NoFile, post |-> NoFile, t0 |-> ZeroTime,
     ret |-> "", found |-> FALSE, token |-> ZeroToken, err |-> NoErr,
     net |-> <<>>, resp |-> <<>>, http |-> <<>>,
     loads |-> 0, saves |-> 0, calls |-> 0, fs |-> "ok",
     expired |-> FALSE, expiresIn |-> 0, args |-> <<>>, out |-> <<>>,
     api |-> <<>>, gets |-> 0]

Call(op) == [NoCall EXCEPT !.op = op, !.pre = file, !.post = file, !.t0 = now]

-----------------------------------------------------------------------------
(* The state at Init *)

\* Expiry values around the margin of IsExpired at the clocks of the model.
Expiries ==
    {ZeroTime, StartTime - 1, StartTime + MarginSeconds,
     StartTime + MarginSeconds + 1, StartTime + MarginSeconds + MaxElapsed + 1}

Tokens ==
    [AccessToken : {"at0"}, RefreshToken : {"", "rt0"}, TokenType : {"bearer"},
     Expiry : Expiries]

Files ==
    {NoFile, UnreadableFile, GarbageFile} \cup {JsonFile(MarshalIndent(tk)) : tk \in Tokens}

\* main: the client has a token provider exactly when the TokenManager was
\* built; envToken is WHOOP_ACCESS_TOKEN.
Clients ==
    {NewClientWithToken(e) : e \in {"", "env"}}
    \cup {NewClientWithTokenProvider(e, TRUE) : e \in {"", "env"}}

\* The permissions a token file f and its directory can have at the start:
\* made by an earlier Save, or by other means.
PermsOf(f) ==
    IF f.kind = "absent"
    THEN [dir : DirModes \cup {NoMode}, file : {NoMode}]
    ELSE [dir : DirModes, file : FileModes]

\* The permissions of a token file f that only Save has ever made.
OwnerOnly(f) ==
    [dir |-> dirPerm, file |-> IF f.kind = "absent" THEN NoMode ELSE filePerm]

TokenInit ==
    /\ file \in Files
    /\ now = StartTime
    /\ client \in Clients
    /\ last = NoCall
    /\ writer = NoWriter
    /\ callers = NoCallers

-----------------------------------------------------------------------------
(* Operations of the TokenManager and the Client *)

\* One caller at a time: a call is made when the result of the previous one
\* has been taken.
Idle == last.op = "none"

InTime(t) == t <= StartTime + MaxElapsed

\* The environment chooses an answer of the token endpoint and an outcome of
\* the file system only for a call that asks for one.
Asked(r, resp, fs) ==
    /\ r.net = <<>> => resp = NoResponse
    /\ r.saves = 0 => fs = "ok"

\* The clock advances by one second.
Tick ==
    /\ Idle
    /\ InTime(now + 1)
    /\ now' = now + 1
    /\ UNCHANGED <<file, client, last, perm, writer, callers, authVars>>

\* The caller takes the result of the call.
Return ==
    /\ ~Idle
    /\ last' = NoCall
    /\ UNCHANGED <<file, now, client, perm, writer, callers, authVars>>

CallLoad ==
    LET r == Load(file)
    IN  /\ Idle
        /\ last' = [Call("Load") EXCEPT !.found = r.found, !.token = r.token,
                                        !.err = r.err, !.loads = 1]
        /\ UNCHANGED <<file, now, client, perm, writer, callers, authVars>>

\* token.IsExpired() on the token read from the file, at the current clock.
CallIsExpired ==
    /\ Idle
    /\ \E r \in {Load(file)} :
           /\ r.found
           /\ last' = [Call("IsExpired") EXCEPT !.token = r.token, !.loads = 1,
                                               !.expired = IsExpired(r.token, now)]
    /\ UNCHANGED <<file, now, client, perm, writer, callers, authVars>>

\* whoop_auth_status: Load, then token.ExpiresIn() at the current clock.
CallExpiresIn ==
    /\ Idle
    /\ \E r \in {Load(file)} :
           /\ r.found
           /\ last' = [Call("ExpiresIn") EXCEPT !.token = r.token, !.loads = 1,
                                               !.expiresIn = ExpiresIn(r.token, now)]
    /\ UNCHANGED <<file, now, client, perm, writer, callers, authVars>>

CallSave ==
    \E tk \in Tokens, fs \in FsOutcomes :
        LET r == Save(file, tk, fs)
        IN  /\ Idle
            /\ file' = r.file
            /\ perm' = SaveModes(perm, fs)
            /\ last' = [Call("Save") EXCEPT !.token = tk, !.err = r.err,
                                            !.post = r.file, !.saves = 1, !.fs = fs]
            /\ UNCHANGED <<now, client, writer, callers, authVars>>

CallDelete ==
    \E rmOk \in BOOLEAN :
        LET r == Delete(file, rmOk)
        IN  /\ Idle
            /\ file.kind = "absent" => rmOk
            /\ file' = r.file
            /\ perm' = DeleteModes(perm, r.file)
            /\ last' = [Call("Delete") EXCEPT !.err = r.err, !.post = r.file]
            /\ UNCHANGED <<now, client, writer, callers, authVars>>

CallRefresh ==
    /\ Idle
    /\ \E rt \in {"rt0", "rt1"}, resp \in TokenResponses, fs \in FsOutcomes :
           \E r \in {Refresh(file, now, rt, resp, fs)} :
                /\ Asked(r, resp, fs)
                /\ InTime(r.t)
                /\ file' = r.file
                /\ now' = r.t
                /\ perm' = IF r.saves = 0 THEN perm ELSE SaveModes(perm, fs)
                /\ last' = [Call("Refresh") EXCEPT
                               !.found = r.found, !.token = r.token, !.err = r.err,
                               !.post = r.file, !.net = r.net, !.resp = <<resp>>,
                               !.saves = r.saves, !.fs = fs]
                /\ UNCHANGED <<client, writer, callers, authVars>>

CallEnsureValidToken ==
    /\ Idle
    /\ \E resp \in TokenResponses, fs \in FsOutcomes :
           \E r \in {EnsureValidToken(file, now, resp, fs)} :
                /\ Asked(r, resp, fs)
                /\ InTime(r.t)
                /\ file' = r.file
                /\ now' = r.t
                /\ perm' = IF r.saves = 0 THEN perm ELSE SaveModes(perm, fs)
                /\ last' = [Call("EnsureValidToken") EXCEPT
                               !.ret = r.ret, !.err = r.err, !.post = r.file,
                               !.net = r.net,
                               !.resp = IF r.net = <<>> THEN <<>> ELSE <<resp>>,
                               !.loads = r.loads, !.saves = r.saves, !.fs = fs]
                /\ UNCHANGED <<client, writer, callers, authVars>>

\* Any API method of the Client: they all go through get and doRequest.
CallDoRequest ==
    /\ Idle
    /\ \E resp \in TokenResponses, fs \in FsOutcomes, api \in ApiResponses :
           \E r \in {doRequest(client, file, now, resp, fs, api)} :
                /\ Asked(r, resp, fs)
                /\ r.http = <<>> => api = NoApiResponse
                /\ InTime(r.t)
                /\ file' = r.file
                /\ now' = r.t
                /\ perm' = IF r.saves = 0 THEN perm ELSE SaveModes(perm, fs)
                /\ last' = [Call("doRequest") EXCEPT
                               !.ret = r.body, !.err = r.err, !.post = r.file,
                               !.net = r.net,
                               !.resp = IF r.net = <<>> THEN <<>> ELSE <<resp>>,
                               !.http = r.http,
                               !.token = [ZeroToken EXCEPT !.AccessToken = r.token],
                               !.loads = r.loads, !.saves = r.saves, !.calls = r.calls,
                               !.fs = fs, !.gets = r.gets,
                               !.api = IF r.http = <<>> THEN <<>> ELSE <<api>>]
                /\ UNCHANGED <<client, writer, callers, authVars>>

-----------------------------------------------------------------------------
(* The operations of the Client that take an identifier *)

\* The text of an identifier is the sequence of its characters.
Rep(c, n) == [k \in 1..n |-> c]

HexDigits ==
    {"0", "1", "2", "3", "4", "5", "6", "7", "8", "9",
     "a", "b", "c", "d", "e", "f", "A", "B", "C", "D", "E", "F"}

\* uuidRegex matching on any 36 characters of the text (no ^ and $).
isValidUUID_Unanchored(text) ==
    \E d \in 0..(Len(text) - 36) :
        \A k \in 1..36 :
            IF k \in {9, 14, 19, 24}
            THEN text[d + k] = "-"
            ELSE text[d + k] \in HexDigits

\* isValidUUID: uuidRegex is anchored at both ends of the text, so it matches
\* 36 characters, with - at 9, 14, 19 and 24 and a hexadecimal digit elsewhere.
isValidUUID(text) ==
    /\ Len(text) = 36
    /\ \A k \in 1..36 :
           IF k \in {9, 14, 19, 24}
           THEN text[k] = "-"
           ELSE text[k] \in HexDigits

\* 8-4-4-4-12 characters c1..c5, joined by -
UUIDText(c1, c2, c3, c4, c5) ==
    Rep(c1, 8) \o <<"-">> \o Rep(c2, 4) \o <<"-">> \o Rep(c3, 4) \o <<"-">>
    \o Rep(c4, 4) \o <<"-">> \o Rep(c5, 12)

\* The identifiers given to GetSleepByID and GetWorkoutByID: two UUIDs, and
\* texts that are not: empty, a word, with a letter that is no hexadecimal
\* digit, without the -, one character short, followed or preceded by another
\* character (a line feed among them), and in braces.
UUIDs ==
    {UUIDText("1", "a", "4", "b", "0"), UUIDText("A", "f", "F", "9", "c"),
     <<>>, <<"x">>,
     UUIDText("1", "a", "g", "b", "0"),
     Rep("1", 32),
     Rep("1", 7) \o <<"-">> \o Rep("a", 4) \o <<"-">> \o Rep("4", 4) \o <<"-">>
        \o Rep("b", 4) \o <<"-">> \o Rep("0", 12),
     UUIDText("1", "a", "4", "b", "0") \o <<"\n">>,
     UUIDText("1", "a", "4", "b", "0") \o <<"/">>,
     <<"/">> \o UUIDText("1", "a", "4", "b", "0"),
     <<"{">> \o UUIDText("1", "a", "4", "b", "0") \o <<"}">>}

\* The identifiers given to the operations that take an int.
IntIDs == {-1, 0, 1}

IntIDOps ==
    {"GetCycleByID", "GetSleepForCycle", "GetRecoveryForCycle", "GetActivityMapping"}

UUIDOps == {"GetSleepByID", "GetWorkoutByID"}

IDsOf(op) == IF op \in UUIDOps THEN UUIDs ELSE IntIDs

\* The check each operation makes of its identifier before anything else.
ValidID(op, id) == IF op \in UUIDOps THEN isValidUUID(id) ELSE id > 0

InvalidID(op) ==
    CASE op = "GetSleepByID" -> Errorf("invalid sleep ID: must be a valid UUID")
      [] op = "GetWorkoutByID" -> Errorf("invalid workout ID: must be a valid UUID")
      [] op = "GetActivityMapping" -> Errorf("invalid activity V1 ID")
      [] OTHER -> Errorf("invalid cycle ID")

\* Client.get, after doRequest returned r: json.Unmarshal of the body.
ParseBody(r) ==
    IF ~IsNil(r.err)
    THEN r
    ELSE IF r.body = "not json"
    THEN [r EXCEPT !.err = Errorf("parsing response"), !.body = ""]
    ELSE r

\* Client.get
get(c, f, t, resp, fs, api) ==
    CHOOSE g \in {ParseBody(r) : r \in {doRequest(c, f, t, resp, fs, api)}} : TRUE

\* GetCycleByID, GetSleepByID, GetSleepForCycle, GetRecoveryForCycle,
\* GetWorkoutByID and GetActivityMapping.
GetByID(op, id, c, f, t, resp, fs, api) ==
    IF ~ValidID(op, id)
    THEN [body |-> "", err |-> InvalidID(op), file |-> f, net |-> <<>>,
          loads |-> 0, saves |-> 0, t |-> t, calls |-> 0, token |-> "",
          gets |-> 0, http |-> <<>>]
    ELSE get(c, f, t, resp, fs, api)

\* The calls of the model, by what the operation's check says of the
\* identifier.
ByIDCalls == (IntIDOps \X IntIDs) \cup (UUIDOps \X UUIDs)

RefusedCalls == {call \in ByIDCalls : ~ValidID(call[1], call[2])}

PassedCalls == ByIDCalls \ RefusedCalls

\* The record of a call that returned r.
ByIDLog(call, r, resp, fs, api) ==
    [Call(call[1]) EXCEPT
        !.args = <<call[2]>>,
        !.ret = r.body, !.err = r.err, !.post = r.file,
        !.net = r.net,
        !.resp = IF r.net = <<>> THEN <<>> ELSE <<resp>>,
        !.http = r.http,
        !.token = [ZeroToken EXCEPT !.AccessToken = r.token],
        !.loads = r.loads, !.saves = r.saves, !.calls = r.calls,
        !.fs = fs, !.gets = r.gets,
        !.api = IF r.http = <<>> THEN <<>> ELSE <<api>>]

\* The environment's answers are drawn only for a call that gets as far as
\* asking for them.
CallGetByID ==
    /\ Idle
    /\ \E call \in ByIDCalls :
         \E resp \in IF call \in RefusedCalls THEN {NoResponse} ELSE TokenResponses,
            fs \in IF call \in RefusedCalls THEN {"ok"} ELSE FsOutcomes,
            api \in IF call \in RefusedCalls THEN {NoApiResponse} ELSE ApiResponses :
           \E r \in {GetByID(call[1], call[2], client, file, now, resp, fs, api)} :
                /\ Asked(r, resp, fs)
                /\ r.http = <<>> => api = NoApiResponse
                /\ InTime(r.t)
                /\ file' = r.file
                /\ now' = r.t
                /\ perm' = IF r.saves = 0 THEN perm ELSE SaveModes(perm, fs)
                /\ last' = ByIDLog(call, r, resp, fs, api)
                /\ UNCHANGED <<client, writer, callers, authVars>>

-----------------------------------------------------------------------------
(* The argument helpers of the tool handlers *)

\* A value of the argument map, as encoding/json or a test puts it there: a
\* float64 is num/den, an integer of any width is num, a string is str.
ArgValue(type, num, den, str) == [type |-> type, num |-> num, den |-> den, str |-> str]

ArgValues ==
    {ArgValue("float64", n, 1, "") : n \in {42, 0, -5}}
    \cup {ArgValue("float64", n, 2, "") : n \in {5, -5, 1, -1}}
    \cup {ArgValue("int", n, 1, "") : n \in {42, 0, -5}}
    \cup {ArgValue("int64", n, 1, "") : n \in {42, 0, -5}}
    \cup {ArgValue("int32", 7, 1, "")}
    \cup {ArgValue("string", 0, 1, str) : str \in {"", "42", "not a number"}}
    \cup {ArgValue("bool", 0, 1, ""), ArgValue("nil", 0, 1, "")}

\* The argument maps: nil, empty, or with one entry under "key" or "other".
NilArgs == [nil |-> TRUE, m |-> <<>>]

ArgMaps ==
    {NilArgs, [nil |-> FALSE, m |-> <<>>],
     [nil |-> FALSE, m |-> [k \in {"other"} |-> ArgValue("int", 42, 1, "")]]}
    \cup {[nil |-> FALSE, m |-> [k \in {"key"} |-> v]] : v \in ArgValues}

ArgKeys == {"key", "missing"}

ArgDefaults == {0, 10}

\* int(v) of a float64 num/den: the fraction is discarded, towards zero.
IntOfFloat(num, den) ==
    IF num >= 0 THEN num \div den ELSE -((-num) \div den)

\* getIntArg that takes a zero argument for a missing one.
getIntArg_ZeroIsMissing(args, key, defaultVal) ==
    IF args.nil \/ key \notin DOMAIN args.m
    THEN defaultVal
    ELSE LET v == args.m[key]
         IN  IF v.type \notin {"float64", "int", "int64"} \/ v.num = 0
             THEN defaultVal
             ELSE IF v.type = "float64" THEN IntOfFloat(v.num, v.den) ELSE v.num

getIntArg(args, key, defaultVal) ==
    IF args.nil
    THEN defaultVal
    ELSE IF key \in DOMAIN args.m
    THEN LET v == args.m[key]
         IN  CASE v.type = "float64" -> IntOfFloat(v.num, v.den)
               [] v.type = "int" -> v.num
               [] v.type = "int64" -> v.num
               [] OTHER -> defaultVal
    ELSE defaultVal

getStringArg(args, key) ==
    IF args.nil
    THEN ""
    ELSE IF key \in DOMAIN args.m /\ args.m[key].type = "string"
    THEN args.m[key].str
    ELSE ""

CallGetIntArg ==
    /\ Idle
    /\ \E args \in ArgMaps, key \in ArgKeys, defaultVal \in ArgDefaults :
           last' = [Call("getIntArg") EXCEPT
                       !.args = <<args, key, defaultVal>>,
                       !.out = <<getIntArg(args, key, defaultVal)>>]
    /\ UNCHANGED <<file, now, client, perm, writer, callers, authVars>>

CallGetStringArg ==
    /\ Idle
    /\ \E args \in ArgMaps, key \in ArgKeys :
           last' = [Call("getStringArg") EXCEPT
                       !.args = <<args, key>>,
                       !.out = <<getStringArg(args, key)>>]
    /\ UNCHANGED <<file, now, client, perm, writer, callers, authVars>>

-----------------------------------------------------------------------------
(* Save step by step: os.WriteFile is open with O_TRUNC, write, close *)

\* Save up to the open of os.WriteFile: MkdirAll has made the directory, and
\* the open with O_WRONLY|O_CREATE|O_TRUNC has created the file or emptied it.
SaveOpenFile ==
    /\ writer.st # "open"
    /\ \E tk \in Tokens :
        writer' = [st |-> "open", token |-> tk, old |-> file]
    /\ file' = GarbageFile
    /\ perm' = SaveModes(perm, "ok")
    /\ UNCHANGED <<now, client, last, callers, authVars>>

\* The write and the close of os.WriteFile; Save returns nil.
SaveWriteData ==
    /\ writer.st = "open"
    /\ file' = JsonFile(MarshalIndent(writer.token))
    /\ writer' = [writer EXCEPT !.st = "closed"]
    /\ UNCHANGED <<now, client, last, perm, callers, authVars>>

\* The process dies between the open and the write.
SaveCrash ==
    /\ writer.st = "open"
    /\ writer' = [writer EXCEPT !.st = "crashed"]
    /\ UNCHANGED <<file, now, client, last, perm, callers, authVars>>

-----------------------------------------------------------------------------
(* EnsureValidToken step by step, for callers that run at the same time *)

\* Caller i returns ret and err from EnsureValidToken.
Returned(i, ret, e) ==
    [callers EXCEPT !.p[i].pc = "returned", !.p[i].ret = ret, !.p[i].err = e]

\* EnsureValidToken from its Load to the call of Refresh.
EnsureLoad(i) ==
    /\ callers.p[i].pc = "start"
    /\ \E ld \in {Load(file)} :
          callers' =
              IF ~IsNil(ld.err)
              THEN Returned(i, "", ld.err)
              ELSE IF ~ld.found
              THEN Returned(i, "", NoErr)
              ELSE IF ~IsExpired(ld.token, now)
              THEN Returned(i, ld.token.AccessToken, NoErr)
              ELSE IF ld.token.RefreshToken = ""
              THEN Returned(i, "",
                            Errorf("token expired and no refresh token available"))
              ELSE [callers EXCEPT !.p[i].pc = "refresh", !.p[i].held = ld.token]
    /\ UNCHANGED <<file, now, client, last, perm, writer, authVars>>

\* A Refresh that sends nothing when the token endpoint already has a
\* request with the same refresh token, and waits for an answer all the same.
RefreshSend_Once(i) ==
    /\ callers.p[i].pc = "refresh"
    /\ LET req == RefreshRequest(callers.p[i].held.RefreshToken)
       IN  callers' =
             [callers EXCEPT
                 !.p[i].pc = "await",
                 !.net = IF \E k \in 1..Len(callers.net) : callers.net[k].req = req
                         THEN @
                         ELSE Append(@, [from |-> i, req |-> req])]
    /\ UNCHANGED <<file, now, client, last, perm, writer, authVars>>

\* Refresh: tm.httpClient.Do(req) sends the request.
RefreshSend(i) ==
    /\ callers.p[i].pc = "refresh"
    /\ callers' =
          [callers EXCEPT
              !.p[i].pc = "await",
              !.net = Append(@, [from |-> i,
                                 req |-> RefreshRequest(callers.p[i].held.RefreshToken)])]
    /\ UNCHANGED <<file, now, client, last, perm, writer, authVars>>

\* Refresh from the answer of the token endpoint to the call of Save.
RefreshReceive(i) ==
    /\ callers.p[i].pc = "await"
    /\ \E resp \in TokenResponses :
          \E r \in {Refresh(file, now, callers.p[i].held.RefreshToken, resp, "ok")} :
              /\ InTime(r.t)
              /\ now' = r.t
              /\ callers' =
                    IF ~IsNil(r.err)
                    THEN Returned(i, "", Wrap("refreshing token", r.err))
                    ELSE [callers EXCEPT !.p[i].pc = "save", !.p[i].new = r.token]
    /\ UNCHANGED <<file, client, last, perm, writer, authVars>>

\* EnsureValidToken returns the error of a Save that failed as fs says.
SaveFailed(i, fs) ==
    Returned(i, "",
             Wrap("refreshing token",
                  Wrap("saving refreshed token",
                       Save(file, callers.p[i].new, fs).err)))

\* Save up to the open of os.WriteFile, which empties the file.
SaveOpen(i) ==
    /\ callers.p[i].pc = "save"
    /\ \E fs \in {"ok", "mkdir", "open"} :
          IF fs = "ok"
          THEN /\ file' = GarbageFile
               /\ callers' = [callers EXCEPT
                                 !.p[i].pc = "write",
                                 !.io = Append(@, [op |-> "open", by |-> i])]
          ELSE /\ file' = file
               /\ callers' = SaveFailed(i, fs)
    /\ perm' = SaveModes(perm, "ok")
    /\ UNCHANGED <<now, client, last, writer, authVars>>

\* What the file holds when data is written from offset 0 through a
\* descriptor opened before the file got the content f: data alone when f is
\* empty or not longer than data, and data followed by the rest of f when f
\* is longer.
Overwrite(f, data) ==
    IF f.kind = "json" /\ f # data
    THEN {data, GarbageFile}
    ELSE {data}

\* The write and the close of os.WriteFile; Save, Refresh and
\* EnsureValidToken return.
SaveWrite(i) ==
    /\ callers.p[i].pc = "write"
    /\ \E fs \in {"ok", "write"} :
          IF fs = "ok"
          THEN /\ file' \in Overwrite(file, Save(file, callers.p[i].new, fs).file)
               /\ callers' =
                     [Returned(i, callers.p[i].new.AccessToken, NoErr) EXCEPT
                         !.io = Append(@, [op |-> "write", by |-> i])]
          ELSE /\ file' = Save(file, callers.p[i].new, fs).file
               /\ callers' = SaveFailed(i, fs)
    /\ UNCHANGED <<now, client, last, perm, writer, authVars>>

-----------------------------------------------------------------------------
(* The authorization flow: constants and pure functions *)

MaxAttempts == 2       \* calls of StartAuthFlow, one after the other

MaxRequests == 2       \* callback requests that arrive during one attempt

ChanCap == 1           \* make(chan string, 1), make(chan error, 1)

Nonces == {"n1", "n2"}

\* The OAuthConfig of the whoop_authorize tool: Scopes is left empty.
Configs == [ClientID : {"cid"}, ClientSecret : {"secret"}, Scopes : {""}]

NoConfig == [ClientID |-> "", ClientSecret |-> "", Scopes |-> ""]

\* The order in which the attempts draw the nonces.
NonceOrder == <<"n1", "n2">>

\* What crypto/rand.Read gives generateState when the attempts before have
\* drawn used: an error, or 32 random bytes (bytes names their base64 URL
\* encoding).  The bytes are those of no earlier read: a repeat of 256 random
\* bits is left out.  The first attempt draws "n1"; the other nonce is then
\* the one a callback can carry that does not match.
RandomReads(used) ==
    LET fresh == {k \in 1..Len(NonceOrder) :
                     \A j \in 1..Len(used) : used[j] # NonceOrder[k]}
    IN  {[ok |-> FALSE, bytes |-> ""]}
        \cup {[ok |-> TRUE, bytes |-> NonceOrder[k]] :
                 k \in {i \in fresh : \A j \in fresh : i <= j}}

\* generateState that goes on with an empty state when rand.Read fails.
generateState_IgnoreError(rnd) ==
    IF ~rnd.ok
    THEN [state |-> "", err |-> NoErr]
    ELSE [state |-> rnd.bytes, err |-> NoErr]

\* generateState that returns the same state to every attempt.
generateState_Fixed(rnd) ==
    IF ~rnd.ok
    THEN [state |-> "", err |-> Errorf("rand.Read")]
    ELSE [state |-> "n1", err |-> NoErr]

generateState(rnd) ==
    IF ~rnd.ok
    THEN [state |-> "", err |-> Errorf("rand.Read")]
    ELSE [state |-> rnd.bytes, err |-> NoErr]

NoURL ==
    [endpoint |-> "", client_id |-> "", redirect_uri |-> "", response_type |-> "",
     scope |-> "", state |-> ""]

\* buildAuthURL: the endpoint and the query parameters of the URL.
buildAuthURL(cfg, st) ==
    [endpoint      |-> "https://api.prod.whoop.com/oauth/oauth2/auth",
     client_id     |-> cfg.ClientID,
     redirect_uri  |-> "http://localhost:8080/callback",
     response_type |-> "code",
     scope         |-> IF cfg.Scopes = ""
                       THEN "read:profile read:body_measurement read:cycles read:recovery read:sleep read:workout offline"
                       ELSE cfg.Scopes,
     state         |-> st]

\* The text of a URL is a sequence of pieces: a run of unreserved characters
\* is one piece, every other character is a piece of its own, and so is every
\* escape that url.QueryEscape writes.  Spell gives the pieces of the strings
\* that buildAuthURL handles.
Spell(s) ==
    CASE s = "" -> <<>>
      [] s = "a&b=c" -> <<"a", "&", "b", "=", "c">>
      [] s = "n1" -> <<"n1", "=">>
      [] s = "n2" -> <<"n2", "=">>
      [] s = "read:profile read:sleep" ->
            <<"read", ":", "profile", " ", "read", ":", "sleep">>
      [] s = "offline&state=n2" -> <<"offline", "&", "state", "=", "n2">>
      [] s = "read:profile read:body_measurement read:cycles read:recovery read:sleep read:workout offline" ->
            <<"read", ":", "profile", " ", "read", ":", "body_measurement", " ",
              "read", ":", "cycles", " ", "read", ":", "recovery", " ",
              "read", ":", "sleep", " ", "read", ":", "workout", " ", "offline">>
      [] s = "http://localhost:8080/callback" ->
            <<"http", ":", "/", "/", "localhost", ":", "8080", "/", "callback">>
      [] OTHER -> <<s>>

\* The escapes of url.QueryEscape for the reserved characters of the model.
Escapes ==
    {<<" ", "+">>, <<":", "%3A">>, <<"/", "%2F">>, <<"&", "%26">>,
     <<"=", "%3D">>, <<"?", "%3F">>, <<"+", "%2B">>, <<"%", "%25">>}

\* Values.Encode that writes the values as they are.
QueryEscape_Raw(text) == text

\* url.QueryEscape
QueryEscape(text) ==
    [k \in 1..Len(text) |->
        IF \E e \in Escapes : e[1] = text[k]
        THEN (CHOOSE e \in Escapes : e[1] = text[k])[2]
        ELSE text[k]]

\* url.QueryUnescape, as the receiver of the URL applies it.
QueryUnescape(text) ==
    [k \in 1..Len(text) |->
        IF \E e \in Escapes : e[2] = text[k]
        THEN (CHOOSE e \in Escapes : e[2] = text[k])[1]
        ELSE text[k]]

\* url.Values.Encode of the five parameters: sorted by key, key=value joined
\* by &.
Encode(params) ==
    LET pair(key) == <<key, "=">> \o QueryEscape(Spell(params[key]))
    IN  pair("client_id") \o <<"&">> \o pair("redirect_uri") \o <<"&">>
        \o pair("response_type") \o <<"&">> \o pair("scope") \o <<"&">>
        \o pair("state")

\* whoop.AuthURL + "?" + params.Encode()
AuthURLText(u) ==
    <<u.endpoint, "?">>
    \o Encode([client_id |-> u.client_id, redirect_uri |-> u.redirect_uri,
                response_type |-> u.response_type, scope |-> u.scope,
                state |-> u.state])

\* strings.Split
RECURSIVE SplitOn(_, _)
SplitOn(text, sep) ==
    IF \A k \in 1..Len(text) : text[k] # sep
    THEN <<text>>
    ELSE LET k == CHOOSE i \in 1..Len(text) :
                      /\ text[i] = sep
                      /\ \A j \in 1..(i - 1) : text[j] # sep
         IN  <<SubSeq(text, 1, k - 1)>> \o SplitOn(SubSeq(text, k + 1, Len(text)), sep)

\* url.Parse(text).Query().Get(key): the unescaped value of the first
\* key=value of the query whose key is key, empty when there is none.
QueryGet(text, key) ==
    LET parts == SplitOn(text, "?")
        pairs == IF Len(parts) < 2 THEN <<>> ELSE SplitOn(parts[2], "&")
        found == {k \in 1..Len(pairs) :
                     /\ Len(pairs[k]) >= 2
                     /\ pairs[k][1] = key
                     /\ pairs[k][2] = "="}
    IN  IF found = {}
        THEN <<>>
        ELSE LET k == CHOOSE i \in found : \A j \in found : i <= j
             IN  QueryUnescape(SubSeq(pairs[k], 3, Len(pairs[k])))

\* The configs and states buildAuthURL is applied to on its own: client ids
\* and scopes with reserved characters among them.
URLConfigs ==
    [ClientID : {"cid", "abc", "a&b=c"}, ClientSecret : {"secret"},
     Scopes : {"", "read:profile read:sleep", "offline&state=n2"}]

URLStates == {"n1", "n2", "test-state"}

\* buildAuthURL applied to a config and a state; out is the text of the URL.
CallBuildAuthURL ==
    /\ Idle
    /\ \E cfg \in URLConfigs, st \in URLStates :
           last' = [Call("buildAuthURL") EXCEPT
                       !.args = <<cfg, st>>,
                       !.out = AuthURLText(buildAuthURL(cfg, st))]
    /\ UNCHANGED <<file, now, client, perm, writer, callers, authVars>>

\* The query of a request to /callback (error_description goes with error).
Queries == [state : Nonces, error : {"", "access_denied"}, code : {"", "c1"}]

NoQuery == [state |-> "", error |-> "", code |-> ""]

\* The handler with the state compared only when the request has no code.
handleCallback_CodeFirst(expectedState, q) ==
    IF q.error = "" /\ q.code # ""
    THEN [chan |-> "code", err |-> NoErr, code |-> q.code]
    ELSE IF q.state # expectedState
    THEN [chan |-> "err", err |-> Errorf("invalid state parameter"), code |-> ""]
    ELSE IF q.error # ""
    THEN [chan |-> "err", err |-> Errorf("authorization error"), code |-> ""]
    ELSE [chan |-> "err", err |-> Errorf("no authorization code received"), code |-> ""]

\* The handler answering the provider's error as it answers a wrong state.
handleCallback_ErrorAsMismatch(expectedState, q) ==
    IF q.state # expectedState \/ q.error # ""
    THEN [chan |-> "err", err |-> Errorf("invalid state parameter"), code |-> ""]
    ELSE IF q.code = ""
    THEN [chan |-> "err", err |-> Errorf("no authorization code received"), code |-> ""]
    ELSE [chan |-> "code", err |-> NoErr, code |-> q.code]

\* A handler without its check of the code: it sends whatever the request
\* carries as code, the empty string included.
handleCallback_NoCodeCheck(expectedState, q) ==
    IF q.state # expectedState
    THEN [chan |-> "err", err |-> Errorf("invalid state parameter"), code |-> ""]
    ELSE IF q.error # ""
    THEN [chan |-> "err", err |-> Errorf("authorization error"), code |-> ""]
    ELSE [chan |-> "code", err |-> NoErr, code |-> q.code]

\* The handler of /callback: the channel it sends on and what it sends.
handleCallback(expectedState, q) ==
    IF q.state # expectedState
    THEN [chan |-> "err", err |-> Errorf("invalid state parameter"), code |-> ""]
    ELSE IF q.error # ""
    THEN [chan |-> "err", err |-> Errorf("authorization error"), code |-> ""]
    ELSE IF q.code = ""
    THEN [chan |-> "err", err |-> Errorf("no authorization code received"), code |-> ""]
    ELSE [chan |-> "code", err |-> NoErr, code |-> q.code]

\* The answers of the token endpoint to a code exchange.
ExchangeResponses ==
    {r \in TokenResponses :
        r.decodes => /\ r.body.access_token = "at1"
                     /\ r.body.refresh_token = "rt1"
                     /\ r.body.expires_in # 0}

\* exchangeCode that takes the body of any response for a token, whatever
\* the status.
exchangeCode_AnyStatus(cfg, code, t, resp, cancelled) ==
    LET req == [grant_type |-> "authorization_code", value |-> code]
    IN  IF cancelled
        THEN [token |-> ZeroToken, err |-> Errorf("executing token request"),
              net |-> <<>>, t |-> t]
        ELSE IF resp.neterr
        THEN [token |-> ZeroToken, err |-> Errorf("executing token request"),
              net |-> <<req>>, t |-> t + resp.delay]
        ELSE [token |-> NewToken(resp.body, t + resp.delay), err |-> NoErr,
              net |-> <<req>>, t |-> t + resp.delay]

\* exchangeCode that sends its request a second time when the first fails.
exchangeCode_Retry(cfg, code, t, resp, cancelled) ==
    LET req == [grant_type |-> "authorization_code", value |-> code]
        failed(e) == [token |-> ZeroToken, err |-> e, net |-> <<req, req>>,
                      t |-> t + resp.delay]
    IN  IF cancelled
        THEN [token |-> ZeroToken, err |-> Errorf("executing token request"),
              net |-> <<>>, t |-> t]
        ELSE IF resp.neterr
        THEN failed(Errorf("executing token request"))
        ELSE IF resp.status # StatusOK
        THEN failed(ErrorfStatus("token exchange failed with status", resp.status))
        ELSE IF ~resp.decodes
        THEN failed(Errorf("parsing token response"))
        ELSE [token |-> NewToken(resp.body, t + resp.delay), err |-> NoErr,
              net |-> <<req>>, t |-> t + resp.delay]

\* exchangeCode at clock t; cancelled is ctx being done when the request is
\* made, which fails the request before it is sent.
exchangeCode(cfg, code, t, resp, cancelled) ==
    LET req == [grant_type |-> "authorization_code", value |-> code]
        failed(e) == [token |-> ZeroToken, err |-> e, net |-> <<req>>,
                      t |-> t + resp.delay]
    IN  IF cancelled
        THEN [token |-> ZeroToken, err |-> Errorf("executing token request"),
              net |-> <<>>, t |-> t]
        ELSE IF resp.neterr
        THEN failed(Errorf("executing token request"))
        ELSE IF resp.status # StatusOK
        THEN failed(ErrorfStatus("token exchange failed with status", resp.status))
        ELSE IF ~resp.decodes
        THEN failed(Errorf("parsing token response"))
        ELSE [token |-> NewToken(resp.body, t + resp.delay), err |-> NoErr,
              net |-> <<req>>, t |-> t + resp.delay]

\* exchangeCode called with a code, as StartAuthFlow calls it.
CallExchangeCode ==
    /\ Idle
    /\ \E cfg \in Configs, resp \in TokenResponses, cancelled \in BOOLEAN :
           \E x \in {exchangeCode(cfg, "c1", now, resp, cancelled)} :
                /\ x.net = <<>> => resp = NoResponse
                /\ InTime(x.t)
                /\ now' = x.t
                /\ last' = [Call("exchangeCode") EXCEPT
                               !.found = IsNil(x.err), !.token = x.token,
                               !.err = x.err, !.net = x.net,
                               !.resp = IF x.net = <<>> THEN <<>> ELSE <<resp>>]
    /\ UNCHANGED <<file, client, perm, writer, callers, authVars>>

-----------------------------------------------------------------------------
(* The authorization flow: state *)

\* acted    the way StartAuthFlow left: "state" (generateState failed), "bind"
\*          (the listener could not bind), "browser" (openBrowser failed), or
\*          the case its select took: "code", "err", "timeout", "ctx"
\* waited   whether StartAuthFlow reached its select
\* res      "pending" until the return values are set; then "nil" or
\*          "AuthResult", with success, message and url (the URL in the message)
\* err      the error returned
\* got      the element received from codeChan or errChan
\* token    the Token of exchangeCode
\* xnet     the requests sent to the token endpoint
\* xresp    the token endpoint's answers to them
\* pre      the token file when StartAuthFlow was called
\* saves    the Save calls made
NoElem == [from |-> 0, err |-> NoErr, code |-> ""]

NoFlow ==
    [acted |-> "none", waited |-> FALSE, res |-> "pending", success |-> FALSE,
     message |-> "", url |-> NoURL, err |-> NoErr, got |-> NoElem,
     token |-> ZeroToken, xnet |-> <<>>, xresp |-> <<>>, pre |-> NoFile,
     saves |-> 0]

\* return nil, err
ReturnErr(f, how, e) == [f EXCEPT !.acted = how, !.res = "nil", !.err = e]

\* return &AuthResult{Success: ok, Message: message}, nil
ReturnResult(f, how, ok, message, url) ==
    [f EXCEPT !.acted = how, !.res = "AuthResult", !.success = ok,
              !.message = message, !.url = url]

\* st: "none" (not arrived), "sending" (the handler is at its channel send),
\* "done" (the handler returned); sent: the channel it has sent on.
NoHandler == [st |-> "none", q |-> NoQuery, sent |-> "none"]

\* serve: "none" (no server), "spawned" (go server.Serve not yet running),
\* "serving" (Serve accepts connections), "failing" (Serve returned an error
\* other than ErrServerClosed and is at its errChan send), "exited".
NoServer == [inShutdown |-> FALSE, serve |-> "none"]

AuthIdle ==
    /\ pc = "idle"
    /\ config = NoConfig
    /\ state = ""
    /\ nonces = <<>>
    /\ srv = NoServer
    /\ codeChan = <<>>
    /\ errChan = <<>>
    /\ handlers = [i \in 1..MaxRequests |-> NoHandler]
    /\ timer = FALSE
    /\ ctxDone = FALSE
    /\ flow = NoFlow

-----------------------------------------------------------------------------
(* The authorization flow: the orchestrator *)

\* StartAuthFlow, lines 45-49: generateState.
StartAuthFlow ==
    /\ pc = "idle"
    /\ \E cfg \in Configs, rnd \in RandomReads(nonces) :
        LET g == generateState(rnd)
            f == [NoFlow EXCEPT !.pre = file]
        IN  /\ config' = cfg
            /\ IF ~IsNil(g.err)
               THEN /\ flow' = ReturnErr(f, "state", Wrap("generating state", g.err))
                    /\ pc' = "returned"
                    /\ state' = state
                    /\ nonces' = nonces
               ELSE /\ flow' = f
                    /\ pc' = "listen"
                    /\ state' = g.state
                    /\ nonces' = Append(nonces, g.state)
    /\ UNCHANGED <<tokenVars, port, srv, codeChan, errChan, handlers, timer, ctxDone>>

\* Listen that takes the port over from whoever holds it.
Listen_Takeover(p) == [port |-> "listener", err |-> NoErr]

\* net.Listen("tcp", ":8080") when the port is held as p: it binds a free
\* port and fails at once on a port that is held.
Listen(p) ==
    IF p = "free"
    THEN [port |-> "listener", err |-> NoErr]
    ELSE [port |-> p, err |-> Errorf("bind: address already in use")]

\* StartAuthFlow, lines 51-58, with startCallbackServer: the channels, the
\* listener on the callback port, the Serve goroutine, the deferred Shutdown.
StartCallbackServer ==
    /\ pc = "listen"
    /\ LET l == Listen(port)
       IN  /\ port' = l.port
           /\ IF ~IsNil(l.err)
              THEN /\ flow' = ReturnErr(flow, "bind",
                                 Wrap("starting callback server",
                                      Wrap("port 8080 is already in use", l.err)))
                   /\ pc' = "returned"
                   /\ srv' = srv
              ELSE /\ srv' = [inShutdown |-> FALSE, serve |-> "spawned"]
                   /\ pc' = "browser"
                   /\ flow' = flow
    /\ UNCHANGED <<tokenVars, nonces, config, state, codeChan, errChan, handlers, timer, ctxDone>>

\* A failure to open the browser returned as an error.
BrowserFailed_AsError(f, url) == ReturnErr(f, "browser", Errorf("opening browser"))

\* return &AuthResult{Success: false, Message: "Failed to open browser ..."}
BrowserFailed(f, url) ==
    ReturnResult(f, "browser", FALSE,
                 "Failed to open browser. Please visit this URL manually", url)

\* StartAuthFlow, lines 60-67: buildAuthURL and openBrowser, which fails when
\* the platform is unsupported or the command cannot be started.
OpenBrowser ==
    /\ pc = "browser"
    /\ \E ok \in BOOLEAN :
        IF ok
        THEN /\ pc' = "select"
             /\ flow' = [flow EXCEPT !.waited = TRUE]
        ELSE /\ pc' = "shutdown"
             /\ flow' = BrowserFailed(flow, buildAuthURL(config, state))
    /\ UNCHANGED <<tokenVars, nonces, config, state, port, srv, codeChan, errChan, handlers,
                   timer, ctxDone>>

\* select, case code := <-codeChan
SelectCode ==
    /\ pc = "select"
    /\ codeChan # <<>>
    /\ flow' = [flow EXCEPT !.acted = "code", !.got = Head(codeChan)]
    /\ codeChan' = Tail(codeChan)
    /\ pc' = "exchange"
    /\ UNCHANGED <<tokenVars, nonces, config, state, port, srv, errChan, handlers, timer, ctxDone>>

\* The listener's error reported inside a non-success AuthResult.
ListenerError_AsResult(f, elem) ==
    ReturnResult([f EXCEPT !.got = elem], "err", FALSE, "Authorization failed", NoURL)

\* return nil, err  for the error received from errChan
ListenerError(f, elem) == ReturnErr([f EXCEPT !.got = elem], "err", elem.err)

\* select, case err := <-errChan
SelectErr ==
    /\ pc = "select"
    /\ errChan # <<>>
    /\ flow' = ListenerError(flow, Head(errChan))
    /\ errChan' = Tail(errChan)
    /\ pc' = "shutdown"
    /\ UNCHANGED <<tokenVars, nonces, config, state, port, srv, codeChan, handlers, timer, ctxDone>>

\* The timeout returned as an error.
TimedOut_AsError(f) == ReturnErr(f, "timeout", Errorf("authorization timed out"))

\* return &AuthResult{Success: false, Message: "Authorization timed out ..."}
TimedOut(f) ==
    ReturnResult(f, "timeout", FALSE, "Authorization timed out. Please try again.",
                 NoURL)

\* select, case <-time.After(authTimeout)
SelectTimeout ==
    /\ pc = "select"
    /\ timer
    /\ flow' = TimedOut(flow)
    /\ pc' = "shutdown"
    /\ UNCHANGED <<tokenVars, nonces, config, state, port, srv, codeChan, errChan, handlers,
                   timer, ctxDone>>

\* select, case <-ctx.Done()
SelectCtxDone ==
    /\ pc = "select"
    /\ ctxDone
    /\ flow' = ReturnErr(flow, "ctx", Errorf("context canceled"))
    /\ pc' = "shutdown"
    /\ UNCHANGED <<tokenVars, nonces, config, state, port, srv, codeChan, errChan, handlers,
                   timer, ctxDone>>

\* StartAuthFlow, lines 71-74: exchangeCode.
ExchangeCode ==
    /\ pc = "exchange"
    /\ \E resp \in ExchangeResponses :
        LET x == exchangeCode(config, flow.got.code, now, resp, ctxDone)
        IN  /\ x.net = <<>> => resp = NoResponse
            /\ InTime(x.t)
            /\ now' = x.t
            /\ IF ~IsNil(x.err)
               THEN /\ flow' = [ReturnErr(flow, "code", Wrap("exchanging code", x.err))
                                  EXCEPT !.xnet = @ \o x.net,
                                         !.xresp = IF x.net = <<>> THEN @ ELSE @ \o <<resp>>]
                    /\ pc' = "shutdown"
               ELSE /\ flow' = [flow EXCEPT !.token = x.token, !.xnet = @ \o x.net,
                                            !.xresp = @ \o <<resp>>]
                    /\ pc' = "save"
    /\ UNCHANGED <<file, client, last, perm, writer, callers, config, state, nonces, port, srv,
                   codeChan, errChan, handlers, timer, ctxDone>>

\* Success reported whether or not the Save succeeded.
AfterSave_IgnoreError(f, sv) ==
    ReturnResult(f, "code", TRUE, "Authorization successful! Token saved.", NoURL)

\* StartAuthFlow, lines 76-83: what is returned after tokenManager.Save
\* returned sv.
AfterSave(f, sv) ==
    IF ~IsNil(sv.err)
    THEN ReturnErr(f, "code", Wrap("saving token", sv.err))
    ELSE ReturnResult(f, "code", TRUE, "Authorization successful! Token saved.", NoURL)

\* StartAuthFlow, lines 76-83: tokenManager.Save and the success result.
SaveToken ==
    /\ pc = "save"
    /\ \E fs \in FsOutcomes :
        LET sv == Save(file, flow.token, fs)
        IN  /\ file' = sv.file
            /\ perm' = SaveModes(perm, fs)
            /\ flow' = AfterSave([flow EXCEPT !.saves = @ + 1], sv)
    /\ pc' = "shutdown"
    /\ UNCHANGED <<now, client, last, writer, callers, config, state, nonces, port, srv, codeChan,
                   errChan, handlers, timer, ctxDone>>

\* The deferred server.Shutdown(context.Background()), first part: the server
\* is marked as shutting down and the listeners that Serve has registered are
\* closed.  A listener whose Serve goroutine has not run yet is not
\* registered and stays open until that goroutine runs.
ShutdownBegin ==
    /\ pc = "shutdown"
    /\ pc' = "shutdownWait"
    /\ IF srv.serve = "serving"
       THEN /\ srv' = [inShutdown |-> TRUE, serve |-> "exited"]
            /\ port' = "free"
       ELSE /\ srv' = [srv EXCEPT !.inShutdown = TRUE]
            /\ port' = port
    /\ UNCHANGED <<tokenVars, nonces, config, state, codeChan, errChan, handlers, timer,
                   ctxDone, flow>>

\* A connection is active while its handler runs.
ActiveConns == {i \in 1..MaxRequests : handlers[i].st = "sending"}

\* The deferred server.Shutdown(context.Background()), second part: it waits,
\* without a deadline, until no connection is active; then StartAuthFlow
\* returns.
ShutdownDone ==
    /\ pc = "shutdownWait"
    /\ ActiveConns = {}
    /\ pc' = "returned"
    /\ UNCHANGED <<tokenVars, nonces, config, state, port, srv, codeChan, errChan, handlers,
                   timer, ctxDone, flow>>

\* whoop_authorize is called again after StartAuthFlow has returned and the
\* Serve goroutine of that attempt has ended: a new attempt with channels, a
\* server and handlers of its own.  The token file, the clock and the port
\* are as the earlier attempt left them.
NextAttempt ==
    /\ pc = "returned"
    /\ srv.serve \in {"none", "exited"}
    /\ Len(nonces) < MaxAttempts
    /\ pc' = "idle"
    /\ config' = NoConfig
    /\ state' = ""
    /\ srv' = NoServer
    /\ codeChan' = <<>>
    /\ errChan' = <<>>
    /\ handlers' = [i \in 1..MaxRequests |-> NoHandler]
    /\ timer' = FALSE
    /\ ctxDone' = FALSE
    /\ flow' = NoFlow
    /\ UNCHANGED <<tokenVars, nonces, port>>

-----------------------------------------------------------------------------
(* The authorization flow: the listener and the environment *)

\* The goroutine of startCallbackServer starts server.Serve(listener): Serve
\* registers the listener and accepts, or, when the server is already
\* shutting down, returns ErrServerClosed and closes the listener.
ServeStart ==
    /\ srv.serve = "spawned"
    /\ IF srv.inShutdown
       THEN /\ srv' = [srv EXCEPT !.serve = "exited"]
            /\ port' = "free"
       ELSE /\ srv' = [srv EXCEPT !.serve = "serving"]
            /\ port' = port
    /\ UNCHANGED <<tokenVars, nonces, pc, config, state, codeChan, errChan, handlers, timer,
                   ctxDone, flow>>

\* server.Serve returns an error other than ErrServerClosed (Accept fails):
\* the listener is closed and the goroutine goes to send on errChan.
ServeFails ==
    /\ srv.serve = "serving"
    /\ srv' = [srv EXCEPT !.serve = "failing"]
    /\ port' = "free"
    /\ UNCHANGED <<tokenVars, nonces, pc, config, state, codeChan, errChan, handlers, timer,
                   ctxDone, flow>>

\* errChan <- fmt.Errorf("callback server error: %w", err)
ServeSend ==
    /\ srv.serve = "failing"
    /\ Len(errChan) < ChanCap
    /\ errChan' = Append(errChan, [from |-> 0, code |-> "",
                                   err |-> Wrap("callback server error", Errorf("accept"))])
    /\ srv' = [srv EXCEPT !.serve = "exited"]
    /\ UNCHANGED <<tokenVars, nonces, pc, config, state, port, codeChan, handlers, timer,
                   ctxDone, flow>>

\* A request to /callback is accepted and its handler runs up to its
\* channel send.
Callback(i) ==
    /\ srv.serve = "serving"
    /\ handlers[i].st = "none"
    /\ i > 1 => handlers[i - 1].st # "none"
    /\ \E q \in Queries :
        handlers' = [handlers EXCEPT ![i] = [st |-> "sending", q |-> q, sent |-> "none"]]
    /\ UNCHANGED <<tokenVars, nonces, pc, config, state, port, srv, codeChan, errChan, timer,
                   ctxDone, flow>>

\* The handler's channel send (errChan <- ... or codeChan <- code), which
\* blocks while the channel is full; then the handler returns.
HandlerSend(i) ==
    /\ handlers[i].st = "sending"
    /\ LET h == handleCallback(state, handlers[i].q)
           elem == [from |-> i, err |-> h.err, code |-> h.code]
       IN  IF h.chan = "err"
           THEN /\ Len(errChan) < ChanCap
                /\ errChan' = Append(errChan, elem)
                /\ codeChan' = codeChan
                /\ handlers' = [handlers EXCEPT ![i].st = "done", ![i].sent = "err"]
           ELSE /\ Len(codeChan) < ChanCap
                /\ codeChan' = Append(codeChan, elem)
                /\ errChan' = errChan
                /\ handlers' = [handlers EXCEPT ![i].st = "done", ![i].sent = "code"]
    /\ UNCHANGED <<tokenVars, nonces, pc, config, state, port, srv, timer, ctxDone, flow>>

\* time.After(authTimeout) fires; the timer is created when the select is
\* reached.
TimerFires ==
    /\ pc = "select"
    /\ ~timer
    /\ timer' = TRUE
    /\ UNCHANGED <<tokenVars, nonces, pc, config, state, port, srv, codeChan, errChan,
                   handlers, ctxDone, flow>>

\* The caller cancels ctx.
CtxCancel ==
    /\ pc \notin {"idle", "returned"}
    /\ ~ctxDone
    /\ ctxDone' = TRUE
    /\ UNCHANGED <<tokenVars, nonces, pc, config, state, port, srv, codeChan, errChan,
                   handlers, timer, flow>>

vars == <<tokenVars, authVars>>

\* The TokenManager used directly, as by the auth tools and the tests.
Init ==
    /\ TokenInit
    /\ perm \in PermsOf(file)
    /\ client = NewClientWithTokenProvider("", TRUE)
    /\ port = "free"
    /\ AuthIdle

Next ==
    \/ Tick
    \/ Return
    \/ CallLoad
    \/ CallSave
    \/ CallDelete
    \/ CallRefresh
    \/ CallEnsureValidToken
    \/ CallIsExpired
    \/ CallExpiresIn
    \/ CallExchangeCode

Spec == Init /\ [][Next]_vars

\* A Save that runs step by step while Load is called, by another goroutine
\* or by the next process after a crash.
StoreNext ==
    \/ SaveOpenFile
    \/ SaveWriteData
    \/ SaveCrash
    \/ CallLoad
    \/ Return

SpecStore == Init /\ [][StoreNext]_vars

\* The Client of main, over the TokenManager or without it.
ClientNext ==
    \/ Tick
    \/ Return
    \/ CallDoRequest

ClientInit ==
    /\ TokenInit
    /\ perm = OwnerOnly(file)
    /\ port = "free"
    /\ AuthIdle

SpecClient == ClientInit /\ [][ClientNext]_vars

\* The Client called through the operations that take an identifier.
ByIDNext ==
    \/ Tick
    \/ Return
    \/ CallGetByID

SpecByID == ClientInit /\ [][ByIDNext]_vars

\* Two tool calls that reach EnsureValidToken at the same time, over the
\* TokenManager of main.
CallersInit ==
    /\ ClientInit
    /\ client = NewClientWithTokenProvider("", TRUE)

CallersNext ==
    \E i \in Callers :
        \/ EnsureLoad(i)
        \/ RefreshSend(i)
        \/ RefreshReceive(i)
        \/ SaveOpen(i)
        \/ SaveWrite(i)

SpecCallers == CallersInit /\ [][CallersNext]_vars

\* The functions without state, each applied to the inputs of its bounded
\* sets.
HelperInit ==
    /\ file = NoFile
    /\ now = StartTime
    /\ client = NewClientWithToken("")
    /\ last = NoCall
    /\ perm = OwnerOnly(file)
    /\ writer = NoWriter
    /\ callers = NoCallers
    /\ port = "free"
    /\ AuthIdle

HelperNext ==
    \/ CallBuildAuthURL
    \/ CallGetIntArg
    \/ CallGetStringArg
    \/ Return

SpecHelpers == HelperInit /\ [][HelperNext]_vars

\* One authorization attempt, as made by the whoop_authorize tool.  The
\* callback port may be held by another process.
AuthFiles ==
    {NoFile,
     JsonFile([access_token |-> "at0", refresh_token |-> "rt0",
               token_type |-> "Bearer", expiry |-> StartTime - 1])}

AuthInit ==
    /\ file \in AuthFiles
    /\ now = StartTime
    /\ client = NewClientWithTokenProvider("", TRUE)
    /\ last = NoCall
    /\ perm = OwnerOnly(file)
    /\ writer = NoWriter
    /\ callers = NoCallers
    /\ port \in {"free", "other"}
    /\ AuthIdle

AuthNext ==
    \/ StartAuthFlow
    \/ StartCallbackServer
    \/ OpenBrowser
    \/ SelectCode
    \/ SelectErr
    \/ SelectTimeout
    \/ SelectCtxDone
    \/ ExchangeCode
    \/ SaveToken
    \/ ShutdownBegin
    \/ ShutdownDone
    \/ ServeStart
    \/ ServeFails
    \/ ServeSend
    \/ \E i \in 1..MaxRequests : Callback(i)
    \/ \E i \in 1..MaxRequests : HandlerSend(i)
    \/ TimerFires
    \/ CtxCancel

SpecAuth == AuthInit /\ [][AuthNext]_vars

\* Attempts one after the other, each up to the answer of its listener: the
\* timer, the cancellation of ctx and a failure of Accept are left to
\* SpecAuth.
AttemptsInit ==
    /\ AuthInit
    /\ file = NoFile
    /\ port = "free"

AttemptsNext ==
    \/ StartAuthFlow
    \/ StartCallbackServer
    \/ OpenBrowser
    \/ SelectCode
    \/ SelectErr
    \/ ExchangeCode
    \/ SaveToken
    \/ ShutdownBegin
    \/ ShutdownDone
    \/ ServeStart
    \/ \E i \in 1..MaxRequests : Callback(i)
    \/ \E i \in 1..MaxRequests : HandlerSend(i)
    \/ NextAttempt

SpecAttempts == AttemptsInit /\ [][AttemptsNext]_vars

\* The scheduling of one attempt: StartAuthFlow and the goroutines take their
\* next step when they can (the select takes one of its ready cases, a
\* channel send goes through when there is room, the request of exchangeCode
\* ends within its 30 s timeout) and the 5 minute timer fires.  Requests to
\* the listener, a failure of Accept and the cancellation of ctx are up to
\* the environment.
AuthFairness ==
    /\ WF_vars(StartCallbackServer)
    /\ WF_vars(OpenBrowser)
    /\ WF_vars(SelectCode \/ SelectErr \/ SelectTimeout \/ SelectCtxDone)
    /\ WF_vars(ExchangeCode)
    /\ WF_vars(SaveToken)
    /\ WF_vars(ShutdownBegin)
    /\ WF_vars(ShutdownDone)
    /\ WF_vars(ServeStart)
    /\ WF_vars(ServeSend)
    /\ \A i \in 1..MaxRequests : WF_vars(HandlerSend(i))
    /\ WF_vars(TimerFires)

SpecAuthFair == AuthInit /\ [][AuthNext]_vars /\ AuthFairness

-----------------------------------------------------------------------------
(* Claims about EnsureValidToken and the Client *)

EnsureCalled == last.op = "EnsureValidToken"

\* The token file held a token when the call was made.
PrePresent == last.pre.kind = "json"

\* Non-zero expiry, and the clock of the call plus 5 minutes is after it.
PreExpired ==
    /\ PrePresent
    /\ last.pre.obj.expiry # ZeroTime
    /\ last.t0 + MarginSeconds > last.pre.obj.expiry

PreNotExpired ==
    /\ PrePresent
    /\ \/ last.pre.obj.expiry = ZeroTime
       \/ ~(last.t0 + MarginSeconds > last.pre.obj.expiry)

\* The token endpoint answered the call's request with 200 and a body that
\* decodes (no answer was chosen when no request was sent).
EndpointSuccess ==
    \/ last.resp = <<>>
    \/ /\ ~last.resp[1].neterr
       /\ last.resp[1].status = StatusOK
       /\ last.resp[1].decodes

\* One refresh request with the stored refresh token; the access token of the
\* response is returned; the token file holds the token of the response, with
\* the expiry counted from the time the response was processed.
RefreshedOnce ==
    /\ last.net = <<[grant_type |-> "refresh_token",
                     value |-> last.pre.obj.refresh_token]>>
    /\ Len(last.resp) = 1
    /\ IsNil(last.err)
    /\ last.ret = last.resp[1].body.access_token
    /\ last.post =
         JsonFile([access_token  |-> last.resp[1].body.access_token,
                   refresh_token |-> last.resp[1].body.refresh_token,
                   token_type    |-> last.resp[1].body.token_type,
                   expiry        |-> last.t0 + last.resp[1].delay
                                       + last.resp[1].body.expires_in])

C2_ValidTokenHotPath ==
    (EnsureCalled /\ PreNotExpired)
        => /\ IsNil(last.err)
           /\ last.ret = last.pre.obj.access_token
           /\ last.net = <<>>
           /\ last.saves = 0
           /\ last.post = last.pre

\* A token that expires exactly 5 minutes after the call is returned as is.
C2_Witness ==
    /\ EnsureCalled
    /\ PrePresent
    /\ last.pre.obj.expiry = last.t0 + MarginSeconds
    /\ last.ret = "at0"
    /\ last.net = <<>>
    /\ file = last.pre

\* C3: with an expired token and an empty refresh token EnsureValidToken
\* returns the token-expired error and no token, sends nothing to the token
\* endpoint and leaves the token file as it was.
C3_ExpiredNoRefreshToken ==
    (EnsureCalled /\ PreExpired /\ last.pre.obj.refresh_token = "")
        => /\ last.err = Errorf("token expired and no refresh token available")
           /\ last.ret = ""
           /\ last.net = <<>>
           /\ last.saves = 0
           /\ last.post = last.pre

C3_Witness ==
    /\ EnsureCalled
    /\ PreExpired
    /\ last.pre.obj.refresh_token = ""
    /\ last.pre.obj.access_token = "at0"
    /\ ~IsNil(last.err)
    /\ file = last.pre

C5_StaticTokenPrecedence ==
    (last.op = "doRequest" /\ client.token # "")
        => /\ last.calls = 0
           /\ last.loads = 0
           /\ last.net = <<>>
           /\ last.saves = 0
           /\ last.post = last.pre
           /\ last.http = <<[authorization |-> Bearer(client.token)]>>

\* The static token is used over a provider whose stored token is expired
\* and refreshable.
C5_Witness ==
    /\ last.op = "doRequest"
    /\ client.token = "env"
    /\ client.hasProvider
    /\ PreExpired
    /\ last.pre.obj.refresh_token # ""
    /\ Len(last.http) = 1
    /\ last.ret = "payload"

-----------------------------------------------------------------------------
(* Claims about StartAuthFlow and the callback listener *)

Arrived == {i \in 1..MaxRequests : handlers[i].st # "none"}

\* The return values of StartAuthFlow are set.
Returning == flow.res # "pending"

NonSuccessResult == flow.res = "AuthResult" /\ ~flow.success /\ IsNil(flow.err)

\* The select received the error of a callback that reported an error
\* parameter or carried a state other than the nonce.
ActedOnDeniedOrMismatch ==
    /\ flow.acted = "err"
    /\ flow.got.from \in Arrived
    /\ \/ handlers[flow.got.from].q.state # state
       \/ handlers[flow.got.from].q.error # ""

C7_TimeoutIsNonSuccess ==
    flow.acted = "timeout" =>
        /\ timer
        /\ NonSuccessResult
        /\ flow.message = "Authorization timed out. Please try again."
        /\ flow.xnet = <<>>
        /\ flow.saves = 0
        /\ file = flow.pre

\* The timeout elapsed with no callback, no listener error, no cancellation.
C7_Witness ==
    /\ pc = "returned"
    /\ flow.acted = "timeout"
    /\ Arrived = {}
    /\ codeChan = <<>>
    /\ errChan = <<>>
    /\ ~ctxDone
    /\ srv.serve = "exited"

\* C8: when openBrowser fails, StartAuthFlow returns a non-success AuthResult
\* whose message carries the authorization URL, and a nil error, without
\* reaching the select that waits for the callback.
C8_BrowserFailure ==
    flow.acted = "browser" =>
        /\ NonSuccessResult
        /\ flow.url.endpoint = "https://api.prod.whoop.com/oauth/oauth2/auth"
        /\ flow.url.state = state
        /\ flow.url.client_id = config.ClientID
        /\ state # ""
        /\ ~flow.waited
        /\ ~timer
        /\ flow.got = NoElem
        /\ flow.xnet = <<>>
        /\ pc \in {"shutdown", "shutdownWait", "returned"}

C8_Witness ==
    /\ pc = "returned"
    /\ flow.acted = "browser"
    /\ flow.url.state = "n1"
    /\ port = "free"

\* C9: a callback request whose state differs from the nonce never places a
\* code on the code channel, even when it carries a code; what its handler
\* sends is the invalid-state error on the error channel.
C9_StateMismatchNeverYieldsCode ==
    \A i \in Arrived :
        handlers[i].q.state # state =>
            /\ handlers[i].sent # "code"
            /\ handlers[i].st = "done" => handlers[i].sent = "err"
            /\ \A k \in 1..Len(codeChan) : codeChan[k].from # i
            /\ \A k \in 1..Len(errChan) :
                  errChan[k].from = i => errChan[k].err = Errorf("invalid state parameter")
            /\ flow.got.from = i =>
                  /\ flow.got.code = ""
                  /\ flow.got.err = Errorf("invalid state parameter")
                  /\ flow.acted = "err"

\* A request with a wrong state and a code has been handled.
C9_Witness ==
    \E i \in Arrived :
        /\ handlers[i].q = [state |-> "n2", error |-> "", code |-> "c1"]
        /\ state = "n1"
        /\ handlers[i].st = "done"
        /\ handlers[i].sent = "err"
        /\ flow.got.from = i

\* C10 as stated: whenever StartAuthFlow has returned after the listener was
\* started, the server is shut down and the callback port is released.
C10_AsStated ==
    (pc = "returned" /\ flow.acted \notin {"state", "bind"})
        => (srv.inShutdown /\ port # "listener")

-----------------------------------------------------------------------------
(* Claims about the listener's requests and the results of StartAuthFlow *)

\* A handler has sent a code on the code channel.
CodeSignaled == \E i \in 1..MaxRequests : handlers[i].sent = "code"

\* C11 as stated: once a code has been signaled, the listener serves no
\* further callback request and no handler places another value on the code
\* channel or the error channel.
C11_AsStated ==
    [][CodeSignaled =>
          \A j \in 1..MaxRequests :
              /\ handlers[j].st = "none" => handlers'[j].st = "none"
              /\ handlers'[j].sent = handlers[j].sent]_vars

BindFailed == flow.acted = "bind"

C14_AsStated ==
    /\ (pc = "select" /\ ctxDone) ~> (pc = "returned" /\ port # "listener")
    /\ [](flow.acted = "ctx" => (flow.xnet = <<>> /\ file = flow.pre))

-----------------------------------------------------------------------------
(* Claims about Refresh and the token file *)

RefreshCalled == last.op = "Refresh" /\ Len(last.resp) = 1

\* C15: when the request of Refresh fails, or the token endpoint answers with
\* a status other than 200, or the body does not decode, Refresh returns no
\* token and an error (which carries the status code in the status case),
\* having sent exactly one request and made no Save; the token file is as it
\* was.
C15_RefreshFailureReported ==
    (/\ RefreshCalled
     /\ \/ last.resp[1].neterr
        \/ last.resp[1].status # StatusOK
        \/ ~last.resp[1].decodes)
        => /\ ~last.found
           /\ last.token = ZeroToken
           /\ ~IsNil(last.err)
           /\ last.resp[1].neterr => last.err = Errorf("executing refresh request")
           /\ (~last.resp[1].neterr /\ last.resp[1].status # StatusOK) =>
                  /\ last.err.msg = <<"refresh failed with status">>
                  /\ last.err.status = last.resp[1].status
           /\ (/\ ~last.resp[1].neterr
               /\ last.resp[1].status = StatusOK
               /\ ~last.resp[1].decodes) =>
                  last.err = Errorf("parsing refresh response")
           /\ Len(last.net) = 1
           /\ last.net[1].grant_type = "refresh_token"
           /\ last.saves = 0
           /\ last.post = last.pre
           /\ file = last.pre

\* The token endpoint refused the refresh with 401 and the stored token stays.
C15_Witness ==
    /\ RefreshCalled
    /\ last.resp[1].status = 401
    /\ last.err.status = 401
    /\ last.pre.kind = "json"
    /\ file = last.pre

\* C16: when Refresh returns a token and a nil error, it has made its Save
\* and the token file holds exactly that token; when the Save fails, Refresh
\* returns an error and no token.
C16_RefreshPersistsFirst ==
    RefreshCalled =>
        /\ last.found <=> IsNil(last.err)
        /\ last.found =>
              /\ last.saves = 1
              /\ last.fs = "ok"
              /\ last.post = JsonFile(MarshalIndent(last.token))
              /\ file = last.post
              /\ Load(file) = [found |-> TRUE, token |-> last.token, err |-> NoErr]
        /\ (last.saves = 1 /\ last.fs # "ok") =>
              /\ ~IsNil(last.err)
              /\ last.err.msg[1] = "saving refreshed token"
              /\ ~last.found
              /\ last.token = ZeroToken

\* A refreshed token was returned and is in the token file, replacing the
\* older one.
C16_Witness ==
    /\ RefreshCalled
    /\ last.found
    /\ last.token.AccessToken = "at2"
    /\ last.pre.kind = "json"
    /\ last.pre.obj.access_token = "at0"
    /\ file.obj.access_token = "at2"

\* C17 as stated: a Load made once a Save has opened the token file, while
\* that Save is writing or after it crashed or finished, returns what Load
\* returns on the complete old content or on the complete new content.
C17_AsStated ==
    (last.op = "Load" /\ writer.st # "none") =>
        [found |-> last.found, token |-> last.token, err |-> last.err]
            \in {Load(writer.old), Load(JsonFile(MarshalIndent(writer.token)))}

SaveSucceeded == last.op = "Save" /\ IsNil(last.err)

\* C18 as stated: after every Save that returned nil, the token file has mode
\* 0600 and its directory mode 0700, whatever they were before.
C18_AsStated ==
    SaveSucceeded => (perm.file = filePerm /\ perm.dir = dirPerm)

C20_MissingFileIsNotAnError ==
    /\ (last.op = "Load" /\ last.pre.kind = "absent") =>
           /\ ~last.found
           /\ IsNil(last.err)
           /\ file.kind = "absent"
    /\ (last.op = "Delete" /\ last.pre.kind = "absent") =>
           /\ IsNil(last.err)
           /\ last.post = last.pre
           /\ file.kind = "absent"
    /\ (last.op = "Delete" /\ last.pre.kind # "absent" /\ IsNil(last.err)) =>
           /\ file = NoFile
           /\ Load(file) = [found |-> FALSE, token |-> ZeroToken, err |-> NoErr]

\* A token file that held a token was deleted.
C20_Witness ==
    /\ last.op = "Delete"
    /\ last.pre.kind = "json"
    /\ IsNil(last.err)
    /\ file.kind = "absent"
    /\ perm.file = NoMode

-----------------------------------------------------------------------------
(* C21, C22: IsExpired and ExpiresIn *)

IsExpiredCalled == last.op = "IsExpired"

\* C21: IsExpired is false for every token with zero expiry; for a non-zero
\* expiry it is true exactly when the clock plus five minutes is strictly
\* after the expiry: true for an expiry in the past or fewer than five
\* minutes ahead, false for an expiry five minutes or more ahead.
C21_IsExpiredMargin ==
    IsExpiredCalled =>
        LET e == last.token.Expiry
            t == last.t0
        IN  /\ e = ZeroTime => ~last.expired
            /\ e # ZeroTime => (last.expired <=> t + 300 > e)
            /\ (e # ZeroTime /\ e < t + 300) => last.expired
            /\ e >= t + 300 => ~last.expired

\* IsExpired has answered true for an expiry that is still in the future, one
\* second short of the margin.
C21_Witness ==
    /\ IsExpiredCalled
    /\ last.expired
    /\ last.token.Expiry = last.t0 + 300 - 1
    /\ last.token.Expiry > last.t0

ExpiresInCalled == last.op = "ExpiresIn"

\* C22: ExpiresIn is zero for a token with zero expiry, and otherwise the
\* expiry minus the clock, which is positive for an expiry in the future.
C22_ExpiresInDistance ==
    ExpiresInCalled =>
        LET e == last.token.Expiry
            t == last.t0
        IN  /\ e = ZeroTime => last.expiresIn = 0
            /\ e # ZeroTime => last.expiresIn = e - t
            /\ (e # ZeroTime /\ e > t) => last.expiresIn > 0

\* ExpiresIn has answered for a token that expires in the future.
C22_Witness ==
    /\ ExpiresInCalled
    /\ last.token.Expiry > last.t0
    /\ last.expiresIn = last.token.Expiry - last.t0
    /\ last.expiresIn > 0

-----------------------------------------------------------------------------
(* C23: the Authorization header *)

DoRequestCalled == last.op = "doRequest"

\* getToken returned an error, so doRequest returned before building a request.
GetTokenFailed ==
    /\ ~IsNil(last.err)
    /\ last.err.msg[1] = "getting token"

\* No token is available: no static token, and the provider is absent or has
\* answered with the empty string and no error.
NoTokenAvailable ==
    /\ client.token = ""
    /\ \/ ~client.hasProvider
       \/ last.calls = 1 /\ ~GetTokenFailed /\ last.token.AccessToken = ""

\* C23: every request to the resource API carries Authorization: Bearer
\* <token> exactly when the token obtained for it is non-empty; when no token
\* is available the request is still sent, without an Authorization header.
C23_BearerIffToken ==
    DoRequestCalled =>
        /\ \A k \in 1..Len(last.http) :
               LET h == last.http[k].authorization
               IN  /\ h.present <=> last.token.AccessToken # ""
                   /\ h.present =>
                          /\ h.scheme = "Bearer"
                          /\ h.credentials = last.token.AccessToken
                   /\ ~h.present => h = [present |-> FALSE, scheme |-> "",
                                         credentials |-> ""]
        /\ NoTokenAvailable =>
               /\ Len(last.http) = 1
               /\ ~last.http[1].authorization.present
        /\ ~GetTokenFailed => Len(last.http) = 1

\* A client whose provider finds no stored token has sent the request
\* without the header and got the API's answer.
C23_Witness ==
    /\ DoRequestCalled
    /\ client.token = ""
    /\ client.hasProvider
    /\ last.calls = 1
    /\ last.pre.kind = "absent"
    /\ Len(last.http) = 1
    /\ ~last.http[1].authorization.present
    /\ last.err.status = 401

-----------------------------------------------------------------------------
(* C24: the provider's error *)

\* The requests with the attempt's nonce and a non-empty error parameter.
ProviderErrors ==
    {i \in Arrived : handlers[i].q.state = state /\ handlers[i].q.error # ""}

\* C24: a callback with matching state in which the provider reports an error
\* yields the authorization error, which is not the error of a state
\* mismatch, and yields no code, even when the request carries one;
\* StartAuthFlow returns that error as it received it.
C24_ProviderErrorIsDistinct ==
    \A i \in ProviderErrors :
        /\ handlers[i].sent # "code"
        /\ handlers[i].st = "done" => handlers[i].sent = "err"
        /\ \A k \in 1..Len(codeChan) : codeChan[k].from # i
        /\ \A k \in 1..Len(errChan) :
              errChan[k].from = i =>
                  /\ errChan[k].err.msg = <<"authorization error">>
                  /\ errChan[k].err.msg # <<"invalid state parameter">>
                  /\ errChan[k].code = ""
        /\ flow.got.from = i =>
              /\ flow.got.code = ""
              /\ flow.got.err.msg = <<"authorization error">>
              /\ flow.acted = "err"
              /\ flow.xnet = <<>>
              /\ pc = "returned" =>
                     /\ flow.res = "nil"
                     /\ flow.err.msg = <<"authorization error">>

\* StartAuthFlow has returned the authorization error of a request that
\* carried the nonce, an error and a code.
C24_Witness ==
    \E i \in ProviderErrors :
        /\ handlers[i].q = [state |-> "n1", error |-> "access_denied", code |-> "c1"]
        /\ handlers[i].st = "done"
        /\ flow.got.from = i
        /\ pc = "returned"
        /\ flow.err.msg = <<"authorization error">>

-----------------------------------------------------------------------------
(* C25: the authorization URL *)

BuildAuthURLCalled == last.op = "buildAuthURL"

\* C25: for every config and state, buildAuthURL returns a URL on the fixed
\* authorization endpoint whose query, read as its receiver reads it, has
\* client_id equal to the configured client id, the fixed redirect_uri,
\* response_type=code, state equal to the given nonce, and scope equal to the
\* configured scopes when they are non-empty, otherwise the default scopes,
\* among which is offline.
C25_AuthURLParameters ==
    BuildAuthURLCalled =>
        LET cfg == last.args[1]
            st == last.args[2]
            text == last.out
            scope == QueryGet(text, "scope")
        IN  /\ text[1] = "https://api.prod.whoop.com/oauth/oauth2/auth"
            /\ text[2] = "?"
            /\ QueryGet(text, "client_id") = Spell(cfg.ClientID)
            /\ QueryGet(text, "redirect_uri") =
                   <<"http", ":", "/", "/", "localhost", ":", "8080", "/", "callback">>
            /\ QueryGet(text, "response_type") = <<"code">>
            /\ QueryGet(text, "state") = Spell(st)
            /\ cfg.Scopes # "" => scope = Spell(cfg.Scopes)
            /\ cfg.Scopes = "" =>
                   /\ scope = <<"read", ":", "profile", " ",
                                "read", ":", "body_measurement", " ",
                                "read", ":", "cycles", " ", "read", ":", "recovery", " ",
                                "read", ":", "sleep", " ", "read", ":", "workout", " ",
                                "offline">>
                   /\ \E k \in 1..Len(SplitOn(scope, " ")) :
                          SplitOn(scope, " ")[k] = <<"offline">>

\* The URL has been built for a client id and scopes that hold & and =, and
\* for a state that ends in the padding of its base64 form.
C25_Witness ==
    /\ BuildAuthURLCalled
    /\ last.args[1].ClientID = "a&b=c"
    /\ last.args[1].Scopes = "offline&state=n2"
    /\ last.args[2] = "n1"
    /\ QueryGet(last.out, "state") = <<"n1", "=">>
    /\ \E k \in 1..Len(last.out) : last.out[k] = "%26"

-----------------------------------------------------------------------------
(* C29: getIntArg and getStringArg *)

\* The argument of a call is present in the map under the key.
ArgPresent == ~last.args[1].nil /\ last.args[2] \in DOMAIN last.args[1].m

\* C29: getIntArg returns the integer value of the argument when it is
\* present as float64, int or int64, zero and negative values included (of a
\* float64 with a fraction, the integer part), and the default when the map
\* is nil, the key is missing or the value is not numeric; getStringArg
\* returns the value when it is present as a string and the empty string
\* otherwise.
C29_ArgHelpers ==
    /\ last.op = "getIntArg" =>
           LET v == last.args[1].m[last.args[2]]
               out == last.out[1]
           IN  /\ (ArgPresent /\ v.type \in {"int", "int64"}) => out = v.num
               /\ (ArgPresent /\ v.type = "float64" /\ v.den = 1) => out = v.num
               /\ (ArgPresent /\ v.type = "float64" /\ v.num >= 0) =>
                      (out * v.den <= v.num /\ v.num < (out + 1) * v.den)
               /\ (ArgPresent /\ v.type = "float64" /\ v.num < 0) =>
                      ((out - 1) * v.den < v.num /\ v.num <= out * v.den)
               /\ ~ArgPresent => out = last.args[3]
               /\ (ArgPresent /\ v.type \in {"string", "bool", "nil"}) =>
                      out = last.args[3]
    /\ last.op = "getStringArg" =>
           LET v == last.args[1].m[last.args[2]]
               out == last.out[1]
           IN  /\ (ArgPresent /\ v.type = "string") => out = v.str
               /\ ~(ArgPresent /\ v.type = "string") => out = ""

\* getIntArg has returned a zero argument over a non-zero default.
C29_Witness ==
    /\ last.op = "getIntArg"
    /\ ArgPresent
    /\ last.args[1].m[last.args[2]] = ArgValue("float64", 0, 1, "")
    /\ last.args[3] = 10
    /\ last.out = <<0>>

-----------------------------------------------------------------------------
(* C27: the outcome of doRequest by status *)

\* The resource API has answered the request with a status and a body.
ApiAnswered ==
    /\ DoRequestCalled
    /\ last.api # <<>>
    /\ ~last.api[1].neterr
    /\ ~last.api[1].readerr

\* C27: doRequest returns the response body for every status in 200..299 and
\* an APIError carrying the status code for every other status; for an
\* APIError, IsUnauthorized holds exactly for 401, IsNotFound exactly for 404
\* and IsRateLimited exactly for 429, so at most one of the three holds.
C27_StatusOutcome ==
    ApiAnswered =>
        LET code == last.api[1].status
            e == last.err
        IN  /\ (code >= 200 /\ code <= 299) =>
                   /\ IsNil(e)
                   /\ last.ret = last.api[1].body
            /\ ~(code >= 200 /\ code <= 299) =>
                   /\ e.msg = <<"API error", last.api[1].body>>
                   /\ e.status = code
                   /\ last.ret = ""
                   /\ IsUnauthorized(e) <=> code = 401
                   /\ IsNotFound(e) <=> code = 404
                   /\ IsRateLimited(e) <=> code = 429
                   /\ ~(IsUnauthorized(e) /\ IsNotFound(e))
                   /\ ~(IsUnauthorized(e) /\ IsRateLimited(e))
                   /\ ~(IsNotFound(e) /\ IsRateLimited(e))

\* doRequest has returned the APIError of a 401, on which only
\* IsUnauthorized holds.
C27_Witness ==
    /\ ApiAnswered
    /\ last.api[1].status = 401
    /\ last.err.status = 401
    /\ IsUnauthorized(last.err)
    /\ ~IsNotFound(last.err)
    /\ ~IsRateLimited(last.err)

-----------------------------------------------------------------------------
(* C28: identifiers are checked before any network activity *)

ByIDCalled == last.op \in IntIDOps \cup UUIDOps

\* The text is five groups of 8, 4, 4, 4 and 12 hexadecimal digits, joined
\* by -.
IsUUIDShape(text) ==
    LET groups == SplitOn(text, "-")
    IN  /\ Len(groups) = 5
        /\ <<Len(groups[1]), Len(groups[2]), Len(groups[3]), Len(groups[4]),
              Len(groups[5])>> = <<8, 4, 4, 4, 12>>
        /\ \A g \in 1..5 : \A k \in 1..Len(groups[g]) : groups[g][k] \in HexDigits

\* The identifier of the call is one the claim names invalid.
InvalidIDGiven ==
    IF last.op \in UUIDOps THEN ~IsUUIDShape(last.args[1]) ELSE last.args[1] <= 0

\* C28: GetCycleByID, GetSleepForCycle, GetRecoveryForCycle and
\* GetActivityMapping with an id <= 0, and GetSleepByID and GetWorkoutByID
\* with a text that is not an 8-4-4-4-12 hexadecimal UUID, return an error
\* without requesting a token and without sending an HTTP request; with any
\* other identifier the token is requested.
C28_InvalidIDBeforeNetwork ==
    ByIDCalled =>
        /\ InvalidIDGiven =>
               /\ ~IsNil(last.err)
               /\ last.err.msg[1] # "getting token"
               /\ last.err.msg[1] # "API error"
               /\ last.gets = 0
               /\ last.calls = 0
               /\ last.loads = 0
               /\ last.net = <<>>
               /\ last.http = <<>>
               /\ last.api = <<>>
               /\ last.saves = 0
               /\ last.post = last.pre
               /\ last.ret = ""
        /\ ~InvalidIDGiven => last.gets = 1

\* GetSleepByID has refused a UUID followed by a line feed, for a client
\* whose provider holds an expired token it could have refreshed.
C28_Witness ==
    /\ last.op = "GetSleepByID"
    /\ Len(last.args[1]) = 37
    /\ last.args[1][37] = "\n"
    /\ IsUUIDShape(SubSeq(last.args[1], 1, 36))
    /\ client.token = ""
    /\ client.hasProvider
    /\ PreExpired
    /\ last.pre.obj.refresh_token # ""
    /\ last.gets = 0
    /\ last.err = Errorf("invalid sleep ID: must be a valid UUID")

-----------------------------------------------------------------------------
(* C26: one nonce per attempt *)

\* The nonces of the attempts before the current one.
EarlierNonces == {nonces[k] : k \in 1..(Len(nonces) - 1)}

\* The requests that carry the nonce of an earlier attempt.
Replayed == {i \in Arrived : handlers[i].q.state \in EarlierNonces}

\* C26: every StartAuthFlow attempt that gets as far as its listener has
\* generated a nonce of its own, which no earlier attempt had, and a callback
\* that carries the nonce of an earlier attempt is rejected by the listener
\* of a later attempt as a state mismatch, even when it carries a code.
C26_NoncePerAttempt ==
    /\ [][(pc = "idle" /\ pc' = "listen") =>
              /\ state' # ""
              /\ \A k \in 1..Len(nonces) : nonces[k] # state'
              /\ nonces' = Append(nonces, state')]_vars
    /\ [](\A i \in Replayed :
              /\ handlers[i].q.state # state
              /\ handlers[i].sent # "code"
              /\ handlers[i].st = "done" => handlers[i].sent = "err"
              /\ \A k \in 1..Len(codeChan) : codeChan[k].from # i
              /\ \A k \in 1..Len(errChan) :
                    errChan[k].from = i =>
                        errChan[k].err = Errorf("invalid state parameter")
              /\ flow.got.from = i =>
                    /\ flow.got.err = Errorf("invalid state parameter")
                    /\ flow.xnet = <<>>)

\* The second attempt has returned the state mismatch of a request that
\* carried the nonce of the first attempt and a code.
C26_Witness ==
    /\ nonces = <<"n1", "n2">>
    /\ state = "n2"
    /\ pc = "returned"
    /\ \E i \in Replayed :
          /\ handlers[i].q = [state |-> "n1", error |-> "", code |-> "c1"]
          /\ handlers[i].st = "done"
          /\ flow.got.from = i
          /\ flow.err = Errorf("invalid state parameter")

-----------------------------------------------------------------------------
(* C30: StartAuthFlow returns *)

\* StartAuthFlow has started its listener and has not returned.
ListenerStarted ==
    pc \in {"browser", "select", "exchange", "save", "shutdown", "shutdownWait"}

\* C30 as stated: once the listener is started StartAuthFlow eventually
\* returns, whatever requests arrive, and every handler that has reached its
\* send on the code or the error channel eventually gets past it.
C30_AsStated ==
    /\ ListenerStarted ~> pc = "returned"
    /\ \A i \in 1..MaxRequests :
          (handlers[i].st = "sending") ~> (handlers[i].st = "done")

-----------------------------------------------------------------------------
(* C31: one case of the select *)

SelectCases == {"code", "err", "timeout", "ctx"}

\* C31: in one attempt StartAuthFlow acts on exactly one of code, listener
\* error, timeout and cancellation: the case its select took stays the one
\* it acted on, only the code leads to the token endpoint and to the token
\* store, at most one exchange request is sent and the store is written at
\* most once, whatever the handlers have placed on the two channels.
C31_OneCaseActedOn ==
    /\ [][flow.acted \in SelectCases =>
              /\ flow'.acted = flow.acted
              /\ flow'.got = flow.got]_vars
    /\ [][(pc = "select" /\ pc' # "select") =>
              /\ flow'.acted \in SelectCases
              /\ Len(codeChan') + Len(errChan') >= Len(codeChan) + Len(errChan) - 1]_vars
    /\ [](/\ Len(flow.xnet) <= 1
          /\ flow.saves <= 1
          /\ flow.acted # "code" => (flow.xnet = <<>> /\ flow.saves = 0)
          /\ flow.saves = 0 => file = flow.pre \/ pc = "idle"
          /\ pc \in {"exchange", "save"} => flow.acted = "code"
          /\ (pc \in {"shutdown", "shutdownWait", "returned"} /\ flow.waited)
                => flow.acted \in SelectCases)

\* StartAuthFlow has returned success after one exchange and one Save, with
\* the error of an earlier request still on the error channel.
C31_Witness ==
    /\ pc = "returned"
    /\ flow.acted = "code"
    /\ flow.success
    /\ Len(flow.xnet) = 1
    /\ flow.saves = 1
    /\ flow.got.from = 2
    /\ errChan # <<>>
    /\ errChan[1].from = 1

-----------------------------------------------------------------------------
(* C32: the order of the steps of StartAuthFlow *)

\* C32: StartAuthFlow generates the state, then starts the listener, then
\* opens the browser, then waits: the listener is started only with a nonce
\* that was generated, the browser is opened only after the listener was
\* bound to the callback port, and the select is reached only from there.
C32_StepOrder ==
    /\ [][(pc' = "listen" /\ pc # "listen") =>
              /\ pc = "idle"
              /\ state' # ""
              /\ srv'.serve = "none"]_vars
    /\ [][(pc' = "browser" /\ pc # "browser") =>
              /\ pc = "listen"
              /\ state # ""
              /\ state' = state
              /\ port = "free"
              /\ port' = "listener"
              /\ srv'.serve = "spawned"]_vars
    /\ [][(pc = "browser" /\ pc' # "browser") =>
              /\ srv.serve # "none"
              /\ state # ""
              /\ pc' \in {"select", "shutdown"}
              /\ pc' = "select" <=> flow'.waited]_vars
    /\ [][(pc' = "select" /\ pc # "select") => pc = "browser"]_vars
    /\ [](/\ pc \in {"listen", "browser", "select", "exchange", "save"} => state # ""
          /\ pc \in {"idle", "listen"} => (srv.serve = "none" /\ ~flow.waited)
          /\ flow.acted \in {"state", "bind"} =>
                (srv.serve = "none" /\ ~flow.waited /\ flow.url = NoURL)
          /\ flow.acted = "state" => state = ""
          /\ flow.url # NoURL => (srv.serve # "none" /\ flow.url.state = state))

\* StartAuthFlow waits in its select with the browser opened, the nonce
\* generated and the listener holding the port.
C32_Witness ==
    /\ pc = "select"
    /\ flow.waited
    /\ state = "n1"
    /\ port = "listener"
    /\ srv.serve = "spawned"

-----------------------------------------------------------------------------
(* C33: the token store and the outcomes of StartAuthFlow *)

\* The code exchange of the attempt has failed.
ExchangeFailed ==
    /\ flow.acted = "code"
    /\ flow.res = "nil"
    /\ flow.saves = 0

\* C33: StartAuthFlow writes the token store only on the success path, after
\* a code exchange that succeeded: when generateState fails, the port is in
\* use, the browser cannot be opened, the listener reports an error, the
\* timeout or the cancellation is taken, or the code exchange fails, no Save
\* is made and the token store holds what it held when StartAuthFlow was
\* called.
C33_StoreWrittenOnlyOnSuccessPath ==
    /\ (flow.acted \in {"state", "bind", "browser", "err", "timeout", "ctx"}
            \/ ExchangeFailed)
          => (flow.saves = 0 /\ file = flow.pre)
    /\ flow.saves > 0 =>
          /\ flow.acted = "code"
          /\ Len(flow.xresp) = 1
          /\ ~flow.xresp[1].neterr
          /\ flow.xresp[1].status = 200
          /\ flow.xresp[1].decodes
    /\ (pc # "idle" /\ file # flow.pre) => flow.saves = 1

\* StartAuthFlow has returned the error of an exchange that the token
\* endpoint refused, over a token file that is as it was.
C33_Witness ==
    /\ pc = "returned"
    /\ ExchangeFailed
    /\ Len(flow.xresp) = 1
    /\ flow.xresp[1].status = 401
    /\ flow.pre.kind = "json"
    /\ file = flow.pre

-----------------------------------------------------------------------------
(* C34: which callback requests yield a code *)

\* The requests the handler accepts: the attempt's nonce, no error parameter
\* and a code.
Accepted ==
    {i \in Arrived : /\ handlers[i].q.state = state
                     /\ handlers[i].q.error = ""
                     /\ handlers[i].q.code # ""}

\* What the handler of request i has put on a channel or handed to the
\* select.
SentBy(i) ==
    {codeChan[k] : k \in {k \in 1..Len(codeChan) : codeChan[k].from = i}}
        \cup {errChan[k] : k \in {k \in 1..Len(errChan) : errChan[k].from = i}}
        \cup (IF flow.got.from = i THEN {flow.got} ELSE {})

\* C34: a code is on the code channel, or was received from it, only from a
\* request with the expected nonce, an empty error parameter and a non-empty
\* code, and it is that request's code; the handler of every other request
\* (state mismatch, error parameter with or without a code, missing code)
\* sends an error on the error channel and no code; a handler that has
\* finished has sent on exactly the channel its request calls for.
C34_CodeOnlyForValidCallback ==
    /\ \A k \in 1..Len(codeChan) :
          /\ codeChan[k].from \in Accepted
          /\ codeChan[k].code = handlers[codeChan[k].from].q.code
          /\ codeChan[k].code # ""
    /\ \A k \in 1..Len(errChan) : errChan[k].from \notin Accepted
    /\ flow.acted = "code" =>
          /\ flow.got.from \in Accepted
          /\ flow.got.code = handlers[flow.got.from].q.code
    /\ \A i \in Arrived :
          /\ handlers[i].sent = "code" <=> (handlers[i].st = "done" /\ i \in Accepted)
          /\ handlers[i].sent = "err" <=> (handlers[i].st = "done" /\ i \notin Accepted)
          /\ i \notin Accepted =>
                \A e \in SentBy(i) : e.code = "" /\ ~IsNil(e.err)
          /\ i \in Accepted =>
                \A e \in SentBy(i) : e.code = handlers[i].q.code /\ IsNil(e.err)

\* One request with the nonce and a code has put its code on the code
\* channel, and one with the nonce and neither error nor code has sent the
\* error of the missing code.
C34_Witness ==
    \E i, j \in Arrived :
        /\ handlers[i].q = [state |-> state, error |-> "", code |-> "c1"]
        /\ handlers[i].sent = "code"
        /\ handlers[j].q = [state |-> state, error |-> "", code |-> ""]
        /\ handlers[j].sent = "err"
        /\ \E e \in SentBy(j) : e.err = Errorf("no authorization code received")
        /\ \E e \in SentBy(i) : e.code = "c1"

-----------------------------------------------------------------------------
(* C35: a refresh replaces the stored token *)

\* Refresh, called directly or by EnsureValidToken, has succeeded.
RefreshSucceeded ==
    /\ last.op \in {"Refresh", "EnsureValidToken"}
    /\ Len(last.resp) = 1
    /\ last.saves = 1
    /\ IsNil(last.err)

\* C35: after a successful refresh the token file holds the access token,
\* the refresh token and the token type of the token-endpoint response and
\* the expiry computed from the response's expires_in, and nothing else: no
\* value that only a token stored before the first refresh has (at0, rt0,
\* bearer) is in the file, and a response without a refresh token leaves the
\* stored refresh token empty.
C35_RefreshReplacesWholesale ==
    RefreshSucceeded =>
        LET body == last.resp[1].body
        IN  /\ file.kind = "json"
            /\ file.obj.access_token = body.access_token
            /\ file.obj.refresh_token = body.refresh_token
            /\ file.obj.token_type = body.token_type
            /\ file.obj.expiry = last.t0 + last.resp[1].delay + body.expires_in
            /\ body.refresh_token = "" => file.obj.refresh_token = ""
            /\ file = JsonFile(MarshalIndent(
                          NewToken(body, last.t0 + last.resp[1].delay)))
            /\ file.obj.refresh_token # "rt0"
            /\ file.obj.access_token # "at0"
            /\ file.obj.token_type # "bearer"

\* EnsureValidToken has refreshed a stored token that had a refresh token
\* with a response that has none, and the token file holds the response's
\* fields with an empty refresh token.
C35_Witness ==
    /\ RefreshSucceeded
    /\ last.op = "EnsureValidToken"
    /\ last.pre.kind = "json"
    /\ last.pre.obj.refresh_token = "rt0"
    /\ last.pre.obj.access_token = "at0"
    /\ last.pre.obj.token_type = "bearer"
    /\ last.pre.obj.expiry = StartTime - 1
    /\ last.resp[1].body.refresh_token = ""
    /\ file.obj = [access_token |-> "at2", refresh_token |-> "", token_type |-> "Bearer",
                   expiry |-> last.t0 + last.resp[1].delay + MarginSeconds + 1]

-----------------------------------------------------------------------------
(* C36: concurrent calls of EnsureValidToken *)

\* The callers that went on to Refresh.
Refreshing == {i \in Callers : callers.p[i].held # ZeroToken}

\* The requests caller i has sent to the token endpoint.
RequestsOf(i) == {k \in 1..Len(callers.net) : callers.net[k].from = i}

\* Both callers loaded the same expired token and both calls succeeded.
BothSucceeded ==
    /\ Refreshing = Callers
    /\ callers.p[1].held = callers.p[2].held
    /\ \A i \in Callers : callers.p[i].pc = "returned" /\ IsNil(callers.p[i].err)

\* Every caller that loaded an expired token with a refresh token sends its
\* own request, with the refresh token it loaded, whatever the other caller
\* has sent; two callers that loaded the same token send the same refresh
\* token twice.
RequestPerCaller ==
    /\ \A i \in Callers :
          /\ Cardinality(RequestsOf(i)) =
                IF i \in Refreshing /\ callers.p[i].pc # "refresh" THEN 1 ELSE 0
          /\ \A k \in RequestsOf(i) :
                callers.net[k].req = RefreshRequest(callers.p[i].held.RefreshToken)
    /\ BothSucceeded =>
          /\ Len(callers.net) = 2
          /\ callers.net[1].req = callers.net[2].req
          /\ callers.net[1].from # callers.net[2].from

\* The positions in io of the opens and of the writes.
Opens == {k \in 1..Len(callers.io) : callers.io[k].op = "open"}

Writes == {k \in 1..Len(callers.io) : callers.io[k].op = "write"}

\* The caller whose Save wrote last.
LastSaver == callers.io[CHOOSE k \in Writes : \A m \in Writes : m <= k].by

\* Where in io caller i opened the file and where it wrote.
OpenOf(i) == CHOOSE k \in Opens : callers.io[k].by = i

WriteOf(i) == CHOOSE k \in Writes : callers.io[k].by = i

\* The two Saves ran one after the other: one had written when the other
\* opened the file.
SavesInTurn ==
    \A i, j \in Callers :
        i # j => (WriteOf(i) < OpenOf(j) \/ WriteOf(j) < OpenOf(i))

-----------------------------------------------------------------------------
(* C37: a token file that cannot be used *)

\* The token file was there at the call and could not be read or parsed.
PreUnusable == last.pre.kind \in {"unreadable", "garbage"}

\* C37: on a token file that exists and cannot be read or cannot be parsed,
\* Load returns an error and not the nil token with a nil error of a missing
\* file; EnsureValidToken returns that same error, with an empty token, after
\* one Load, without a request to the token endpoint and without a Save, and
\* the file is as it was.
C37_UnusableFileIsAnError ==
    /\ (last.op = "Load" /\ PreUnusable) =>
          /\ ~last.found
          /\ ~IsNil(last.err)
          /\ last.err = IF last.pre.kind = "unreadable"
                        THEN Errorf("reading token file")
                        ELSE Errorf("parsing token file")
          /\ file = last.pre
    /\ (EnsureCalled /\ PreUnusable) =>
          /\ ~IsNil(last.err)
          /\ last.err = Load(last.pre).err
          /\ last.err.msg[1] \in {"reading token file", "parsing token file"}
          /\ last.ret = ""
          /\ last.loads = 1
          /\ last.net = <<>>
          /\ last.saves = 0
          /\ last.post = last.pre
          /\ file = last.pre

\* EnsureValidToken has returned the parse error of a token file that is not
\* JSON.
C37_Witness ==
    /\ EnsureCalled
    /\ last.pre = GarbageFile
    /\ last.err = Errorf("parsing token file")
    /\ last.ret = ""
    /\ file = GarbageFile

-----------------------------------------------------------------------------
(* C38: the provider's error stops the API call *)

\* doRequest was called on a client that has no static token and has the
\* TokenManager as its provider.
ProviderAsked ==
    /\ DoRequestCalled
    /\ client.token = ""
    /\ client.hasProvider

\* What the provider's EnsureValidToken returned to the call in last.
ProviderAnswer ==
    EnsureValidToken(last.pre, last.t0,
                     IF last.resp = <<>> THEN NoResponse ELSE last.resp[1],
                     last.fs)

\* A request has gone to the resource API without an Authorization header.
SentUnauthenticated ==
    \E k \in 1..Len(last.http) : ~last.http[k].authorization.present

\* C38: for a client without a static token, when the provider's
\* EnsureValidToken returns an error (the token is expired and has no refresh
\* token, the refresh fails, the token file cannot be read or parsed)
\* doRequest returns that error wrapped in "getting token" and sends no
\* request to the resource API; a request without Authorization header is
\* sent only when the provider returned the empty token and a nil error.
C38_ProviderErrorStopsCall ==
    ProviderAsked =>
        /\ last.calls = 1
        /\ ~IsNil(ProviderAnswer.err) =>
              /\ last.err = Wrap("getting token", ProviderAnswer.err)
              /\ last.http = <<>>
              /\ last.api = <<>>
              /\ last.ret = ""
        /\ (PreExpired /\ last.pre.obj.refresh_token = "") =>
              /\ last.err.msg = <<"getting token",
                                  "token expired and no refresh token available">>
              /\ last.http = <<>>
        /\ (last.net # <<>> /\ (last.resp[1].neterr \/ last.resp[1].status # StatusOK
                                    \/ ~last.resp[1].decodes \/ last.fs # "ok")) =>
              /\ Len(last.err.msg) >= 3
              /\ last.err.msg[1] = "getting token"
              /\ last.err.msg[2] = "refreshing token"
              /\ last.http = <<>>
        /\ last.pre.kind \in {"unreadable", "garbage"} =>
              /\ last.err = Wrap("getting token", Load(last.pre).err)
              /\ last.http = <<>>
        /\ IsNil(ProviderAnswer.err) => Len(last.http) = 1
        /\ SentUnauthenticated =>
              /\ IsNil(ProviderAnswer.err)
              /\ ProviderAnswer.ret = ""

\* The token endpoint refused the refresh with 401: doRequest returned the
\* error wrapped and the resource API saw no request.
C38_Witness ==
    /\ ProviderAsked
    /\ PreExpired
    /\ last.pre.obj.refresh_token = "rt0"
    /\ Len(last.net) = 1
    /\ last.resp[1].status = 401
    /\ last.err.msg = <<"getting token", "refreshing token", "refresh failed with status">>
    /\ last.err.status = 401
    /\ last.http = <<>>

-----------------------------------------------------------------------------
(* C39: the expiry of a new token *)

\* Refresh or exchangeCode has returned a token.
TokenCreated ==
    /\ last.op \in {"Refresh", "exchangeCode"}
    /\ Len(last.resp) = 1
    /\ last.found

\* The clock when the response was processed.
ProcessedAt == last.t0 + last.resp[1].delay

\* The clocks of the model after the response was processed.
LaterClocks == {t \in StartTime..(StartTime + MaxElapsed + 1) : t > ProcessedAt}

\* C39: the token that Refresh or exchangeCode returns has as expiry the
\* clock at which the response was processed plus the response's expires_in
\* seconds; with an expires_in of at most 300 seconds IsExpired is true of
\* that token at every later clock, so that the next EnsureValidToken takes it
\* for expired, and with more than 300 seconds the token is valid until the
\* margin is reached.  (At the very clock of the processing, IsExpired is
\* true below 300 seconds and false at 300.)
C39_ExpiryFromExpiresIn ==
    TokenCreated =>
        LET ei == last.resp[1].body.expires_in
        IN  /\ last.token.Expiry = ProcessedAt + ei
            /\ now = ProcessedAt
            /\ ei <= MarginSeconds =>
                  \A t \in LaterClocks : IsExpired(last.token, t)
            /\ ei > MarginSeconds =>
                  \A t \in LaterClocks :
                      IsExpired(last.token, t) <=> t - ProcessedAt > ei - MarginSeconds
            /\ IsExpired(last.token, ProcessedAt) <=> ei < MarginSeconds
            /\ (last.op = "Refresh" /\ file.kind = "json") =>
                  /\ file.obj.expiry = ProcessedAt + ei
                  /\ ei <= MarginSeconds =>
                        \A t \in LaterClocks : IsExpired(Load(file).token, t)

\* exchangeCode has made a token from a response with expires_in = 300 that
\* took a second to arrive.
C39_Witness ==
    /\ TokenCreated
    /\ last.op = "exchangeCode"
    /\ last.resp[1].body.expires_in = MarginSeconds
    /\ last.resp[1].delay = 1
    /\ last.token.Expiry = last.t0 + 1 + MarginSeconds
    /\ IsExpired(last.token, now + 1)

====
